---- MODULE Spec2Model ----
(***************************************************************************)
(* Device-catalog pipeline of the roadrunner site.                         *)
(*                                                                         *)
(*   - fetchDeviceCatalog (publisher Edge Function): manufacturer list,    *)
(*     per-manufacturer device list, normalisation, fold into the nested   *)
(*     catalog, upload with retry.                                         *)
(*   - /api/device-catalog.json (API-route reader with local fallback).    *)
(*                                                                         *)
(* Strings are sequences of one-character strings, so that toLowerCase,    *)
(* startsWith, includes, trim, split and the two suffix regular            *)
(* expressions are computed as the code computes them.                     *)
(***************************************************************************)
EXTENDS Integers, Sequences, FiniteSets, TLC

(***************************************************************************)
(* Bounds of the model.                                                    *)
(***************************************************************************)
\* longest manufacturer list the relay answers with
MaxManufacturers == 2
\* longest device list the relay answers with for one manufacturer
MaxDevices == 2
\* longest text of the stored object the reader downloads
MaxTextLen == 3
\* longest text of the local snapshot file
MaxLocalLen == 2

\* length of the longest manufacturer list of SpecCap: one past the cap
MaxListLen == 51

(***************************************************************************)
(* Strings.                                                                *)
(***************************************************************************)
UpperChars ==
  <<"A", "B", "C", "D", "E", "F", "G", "H", "I", "J", "K", "L", "M",
    "N", "O", "P", "Q", "R", "S", "T", "U", "V", "W", "X", "Y", "Z">>

LowerChars ==
  <<"a", "b", "c", "d", "e", "f", "g", "h", "i", "j", "k", "l", "m",
    "n", "o", "p", "q", "r", "s", "t", "u", "v", "w", "x", "y", "z">>

\* the characters String.prototype.trim and the regular expression class \s
\* remove (of the characters the model's inputs use)
WhiteSpace == {" "}

LowerChar(c) ==
  IF \E k \in 1..Len(UpperChars) : UpperChars[k] = c
    THEN LowerChars[CHOOSE k \in 1..Len(UpperChars) : UpperChars[k] = c]
    ELSE c

\* String.prototype.toLowerCase
toLowerCase(s) == [k \in 1..Len(s) |-> LowerChar(s[k])]

\* String.prototype.substring(from), from counted from 0
substring(s, from) == IF from >= Len(s) THEN <<>> ELSE SubSeq(s, from + 1, Len(s))

\* whether t occurs in s at position p (1-based)
OccursAt(s, p, t) ==
  /\ p >= 1
  /\ p + Len(t) - 1 <= Len(s)
  /\ SubSeq(s, p, p + Len(t) - 1) = t

\* String.prototype.startsWith
startsWith(s, t) == OccursAt(s, 1, t)

\* String.prototype.includes
includes(s, t) == \E p \in 1..(Len(s) + 1) : OccursAt(s, p, t)

\* String.prototype.trim
trim(s) ==
  LET solid == {k \in 1..Len(s) : s[k] \notin WhiteSpace}
  IN  IF solid = {} THEN <<>>
      ELSE LET first == CHOOSE k \in solid : \A n \in solid : k <= n
               last  == CHOOSE k \in solid : \A n \in solid : k >= n
           IN  SubSeq(s, first, last)

\* String.prototype.split(','): the pieces between the commas, in order
RECURSIVE split(_)
split(s) ==
  LET commas == {k \in 1..Len(s) : s[k] = ","}
  IN  IF commas = {} THEN <<s>>
      ELSE LET c == CHOOSE k \in commas : \A n \in commas : k <= n
           IN  <<SubSeq(s, 1, c - 1)>> \o split(SubSeq(s, c + 1, Len(s)))

\* Array.prototype.includes on an array of strings
arrayIncludes(arr, x) == \E k \in 1..Len(arr) : arr[k] = x

\* s.replace(/\s*(t1|t2|...).*$/i, ''): the leftmost match starts at the first
\* position from which optional white space and then one of the tokens
\* follows, whatever the case of its letters; the match runs to the end of
\* the string, so the result is what stands before it
stripFrom(s, tokens) ==
  LET low == toLowerCase(s)
      lowTokens == {toLowerCase(t) : t \in tokens}
      tokenAt == {q \in 1..(Len(s) + 1) : \E t \in lowTokens : OccursAt(low, q, t)}
      starts ==
        {p \in 1..(Len(s) + 1) :
           \E q \in tokenAt :
             q >= p /\ \A k \in p..(q - 1) : s[k] \in WhiteSpace}
  IN  IF starts = {} THEN s
      ELSE SubSeq(s, 1, (CHOOSE p \in starts : \A n \in starts : p <= n) - 1)

(***************************************************************************)
(* Device Normalizer.                                                      *)
(***************************************************************************)
StorageTokens ==
  { <<"1", "2", "8", "G", "B">>, <<"2", "5", "6", "G", "B">>,
    <<"5", "1", "2", "G", "B">>, <<"1", "T", "B">>, <<"6", "4", "G", "B">>,
    <<"3", "2", "G", "B">>, <<"1", "6", "G", "B">> }

ColorTokens ==
  { <<"B", "l", "a", "c", "k">>, <<"W", "h", "i", "t", "e">>,
    <<"B", "l", "u", "e">>, <<"R", "e", "d">>, <<"G", "o", "l", "d">>,
    <<"S", "i", "l", "v", "e", "r">>,
    <<"S", "p", "a", "c", "e", " ", "G", "r", "a", "y">>,
    <<"T", "i", "t", "a", "n", "i", "u", "m">> }

\* faulty variant: the watch rule is tried before the tablet rule
categorizeWatchFirst(deviceName) ==
  LET name == toLowerCase(deviceName)
  IN  IF \/ includes(name, <<"w", "a", "t", "c", "h">>)
         \/ includes(name, <<"b", "a", "n", "d">>)
        THEN "smartwatch"
      ELSE IF \/ includes(name, <<"t", "a", "b", "l", "e", "t">>)
              \/ includes(name, <<"i", "p", "a", "d">>)
              \/ includes(name, <<"t", "a", "b">>)
        THEN "tablet"
      ELSE "phone"

categorizeDevice(deviceName) ==
  LET name == toLowerCase(deviceName)
  IN  IF \/ includes(name, <<"t", "a", "b", "l", "e", "t">>)
         \/ includes(name, <<"i", "p", "a", "d">>)
         \/ includes(name, <<"t", "a", "b">>)
        THEN "tablet"
      ELSE IF \/ includes(name, <<"w", "a", "t", "c", "h">>)
              \/ includes(name, <<"b", "a", "n", "d">>)
        THEN "smartwatch"
      ELSE "phone"

extractModelName(deviceName, brandName) ==
  LET m0 == IF startsWith(toLowerCase(deviceName), toLowerCase(brandName))
              THEN trim(substring(deviceName, Len(brandName)))
              ELSE deviceName
      m1 == stripFrom(m0, StorageTokens)
      m2 == stripFrom(m1, ColorTokens)
  IN  IF trim(m2) # <<>> THEN trim(m2) ELSE deviceName

\* an optional string field is <<>> when absent and <<s>> when it holds s
Undefined == <<>>

Some(s) == <<s>>

\* JavaScript truthiness of an optional string: present and not ""
Truthy(f) == f # Undefined /\ f[1] # <<>>

extractStorageVariants(storage) ==
  IF ~Truthy(storage) THEN <<>>
  ELSE LET pieces  == split(storage[1])
           trimmed == [k \in 1..Len(pieces) |-> trim(pieces[k])]
       IN  SelectSeq(trimmed, LAMBDA t : Len(t) > 0)

(***************************************************************************)
(* Catalog Builder.                                                        *)
(*                                                                         *)
(* A JavaScript object used as a mapping is a sequence of entries in       *)
(* insertion order.  categories maps each category to its brands, brands   *)
(* is a sequence of [name, models] and models a sequence of                *)
(* [name, variants].                                                       *)
(***************************************************************************)
\* the property names every object literal inherits from Object.prototype:
\* reading one of them from {} yields a value that is truthy and has neither
\* a models nor a variants property
ObjectPrototypeKeys ==
  { <<"c", "o", "n", "s", "t", "r", "u", "c", "t", "o", "r">>,
    <<"h", "a", "s", "O", "w", "n", "P", "r", "o", "p", "e", "r", "t", "y">>,
    <<"i", "s", "P", "r", "o", "t", "o", "t", "y", "p", "e", "O", "f">>,
    <<"p", "r", "o", "p", "e", "r", "t", "y", "I", "s", "E", "n", "u", "m",
      "e", "r", "a", "b", "l", "e">>,
    <<"t", "o", "L", "o", "c", "a", "l", "e", "S", "t", "r", "i", "n", "g">>,
    <<"t", "o", "S", "t", "r", "i", "n", "g">>,
    <<"v", "a", "l", "u", "e", "O", "f">>,
    <<"_", "_", "p", "r", "o", "t", "o", "_", "_">>,
    <<"_", "_", "d", "e", "f", "i", "n", "e", "G", "e", "t", "t", "e", "r", "_", "_">>,
    <<"_", "_", "d", "e", "f", "i", "n", "e", "S", "e", "t", "t", "e", "r", "_", "_">>,
    <<"_", "_", "l", "o", "o", "k", "u", "p", "G", "e", "t", "t", "e", "r", "_", "_">>,
    <<"_", "_", "l", "o", "o", "k", "u", "p", "S", "e", "t", "t", "e", "r", "_", "_">> }

\* position of the own entry called key, 0 when there is none
OwnIndex(entries, key) ==
  IF \E n \in 1..Len(entries) : entries[n].name = key
    THEN CHOOSE n \in 1..Len(entries) : entries[n].name = key
    ELSE 0

CategoryNames == {"phone", "tablet", "smartwatch"}

\* catalog.categories as the handler initialises it
EmptyCategories == [c \in CategoryNames |-> <<>>]

\* a device list element: a JSON object with the fields the handler reads,
\* or a JSON null
DeviceObject(name, brand, manufacturer_name, brand_name, storage) ==
  [kind |-> "object", name |-> name, brand |-> brand,
   manufacturer_name |-> manufacturer_name, brand_name |-> brand_name,
   storage |-> storage]

NullDevice ==
  [kind |-> "null", name |-> Undefined, brand |-> Undefined,
   manufacturer_name |-> Undefined, brand_name |-> Undefined,
   storage |-> Undefined]

UnknownDevice == <<"U", "n", "k", "n", "o", "w", "n", " ", "D", "e", "v", "i", "c", "e">>

\* device.name || device.brand_name || 'Unknown Device'
DeviceNameOf(device) ==
  IF Truthy(device.name) THEN device.name[1]
  ELSE IF Truthy(device.brand_name) THEN device.brand_name[1]
  ELSE UnknownDevice

\* faulty variant: the flat brand-name field is read before the
\* manufacturer-name field
BrandNameFlatFirst(device, manufacturerName) ==
  IF Truthy(device.brand) THEN device.brand[1]
  ELSE IF Truthy(device.brand_name) THEN device.brand_name[1]
  ELSE IF Truthy(device.manufacturer_name) THEN device.manufacturer_name[1]
  ELSE manufacturerName

\* device.brand?.name || device.manufacturer_name || device.brand_name || manufacturerName
BrandNameOf(device, manufacturerName) ==
  IF Truthy(device.brand) THEN device.brand[1]
  ELSE IF Truthy(device.manufacturer_name) THEN device.manufacturer_name[1]
  ELSE IF Truthy(device.brand_name) THEN device.brand_name[1]
  ELSE manufacturerName

\* `${modelName} ${device.storage || ''}`.trim()
VariantNameOf(modelName, storage) ==
  trim(modelName \o <<" ">> \o (IF Truthy(storage) THEN storage[1] ELSE <<>>))

\* faulty variant: the storage variants are pushed without the includes test
MergeVariantsNoIncludes(existingVariants, storageVariants) ==
  existingVariants \o storageVariants

\* faulty variant: a new storage variant is put in front of the list
RECURSIVE MergeVariantsPrepend(_, _)
MergeVariantsPrepend(existingVariants, storageVariants) ==
  IF storageVariants = <<>> THEN existingVariants
  ELSE MergeVariantsPrepend(
         IF arrayIncludes(existingVariants, Head(storageVariants))
           THEN existingVariants
           ELSE <<Head(storageVariants)>> \o existingVariants,
         Tail(storageVariants))

\* the variants of one model after the handler's merge of storageVariants
RECURSIVE MergeVariants(_, _)
MergeVariants(existingVariants, storageVariants) ==
  IF storageVariants = <<>> THEN existingVariants
  ELSE MergeVariants(
         IF arrayIncludes(existingVariants, Head(storageVariants))
           THEN existingVariants
           ELSE Append(existingVariants, Head(storageVariants)),
         Tail(storageVariants))

\* faulty variant: the synthetic variant is pushed without the includes test
AssignVariantsNoIncludes(variants, storageVariants, variantName) ==
  IF Len(storageVariants) > 0
    THEN MergeVariants(variants, storageVariants)
  ELSE IF variantName # <<>>
    THEN Append(variants, variantName)
  ELSE variants

\* the variant step on the variants array of an own model entry
AssignVariants(variants, storageVariants, variantName) ==
  IF Len(storageVariants) > 0
    THEN MergeVariants(variants, storageVariants)
  ELSE IF variantName # <<>> /\ ~arrayIncludes(variants, variantName)
    THEN Append(variants, variantName)
  ELSE variants

\* the model step and the variant step on the models object of one brand;
\* a model name inherited from Object.prototype reads as present, is not
\* created, and its variants are undefined: the variant step throws
FoldModel(models, modelName, storageVariants, variantName) ==
  IF modelName \in ObjectPrototypeKeys
    THEN [models |-> models, threw |-> TRUE]
  ELSE LET created == IF OwnIndex(models, modelName) = 0
                        THEN Append(models, [name |-> modelName, variants |-> <<>>])
                        ELSE models
           n == OwnIndex(created, modelName)
       IN  [models |-> [created EXCEPT ![n].variants =
                          AssignVariants(@, storageVariants, variantName)],
            threw |-> FALSE]

\* the brand step, then FoldModel on that brand; a brand name inherited from
\* Object.prototype reads as present, is not created, and its models are
\* undefined: the model step throws
FoldBrand(brands, brandName, modelName, storageVariants, variantName) ==
  IF brandName \in ObjectPrototypeKeys
    THEN [brands |-> brands, threw |-> TRUE]
  ELSE LET created == IF OwnIndex(brands, brandName) = 0
                        THEN Append(brands, [name |-> brandName, models |-> <<>>])
                        ELSE brands
           n == OwnIndex(created, brandName)
           r == FoldModel(created[n].models, modelName, storageVariants, variantName)
       IN  [brands |-> [created EXCEPT ![n].models = r.models],
            threw |-> r.threw]

\* what the handler derives from a device object before it writes: the
\* names, the category, the storage variants and the synthetic variant
Normalize(device, manufacturerName) ==
  LET deviceName == DeviceNameOf(device)
      brandName == BrandNameOf(device, manufacturerName)
      modelName == extractModelName(deviceName, brandName)
  IN  [deviceName |-> deviceName,
       brandName |-> brandName,
       category |-> categorizeDevice(deviceName),
       modelName |-> modelName,
       storageVariants |-> extractStorageVariants(device.storage),
       variantName |-> VariantNameOf(modelName, device.storage)]

\* one iteration of `for (const device of devices)` on what Normalize
\* derived: the categories after it and whether it threw
FoldNormalized(categories, n) ==
  LET withCategory ==
        IF n.category \in DOMAIN categories THEN categories
        ELSE [c \in DOMAIN categories \cup {n.category} |->
                IF c = n.category THEN <<>> ELSE categories[c]]
      r == FoldBrand(withCategory[n.category], n.brandName, n.modelName,
                     n.storageVariants, n.variantName)
  IN  [categories |-> [withCategory EXCEPT ![n.category] = r.brands],
       threw |-> r.threw]

(***************************************************************************)
(* Inputs of the publisher: what the relay and the object store answer.    *)
(***************************************************************************)
Apple == <<"A", "p", "p", "l", "e">>

Samsung == <<"S", "a", "m", "s", "u", "n", "g">>

\* the manufacturer names of the model
ManufacturerNames == {Apple, Samsung}

\* an element of the manufacturer list: a JSON object with a name, or null
ManufacturerObject(name) == [kind |-> "object", name |-> name]

NullManufacturer == [kind |-> "null", name |-> <<>>]

ManufacturerElements ==
  {ManufacturerObject(n) : n \in ManufacturerNames} \cup {NullManufacturer}

\* the device list elements of the model
DeviceElements ==
  { \* "Apple iPhone 64GB" with storage "64GB, 128GB"
    DeviceObject(Some(<<"A", "p", "p", "l", "e", " ", "i", "P", "h", "o", "n",
                        "e", " ", "6", "4", "G", "B">>),
                 Undefined, Undefined, Undefined,
                 Some(<<"6", "4", "G", "B", ",", " ", "1", "2", "8", "G", "B">>)),
    \* "iPad" of brand Apple, without storage
    DeviceObject(Some(<<"i", "P", "a", "d">>),
                 Some(Apple), Undefined, Undefined, Undefined),
    \* a name made of one space, storage ""
    DeviceObject(Some(<<" ">>), Undefined, Undefined, Undefined, Some(<<>>)),
    \* "valueOf", a name Object.prototype defines
    DeviceObject(Some(<<"v", "a", "l", "u", "e", "O", "f">>),
                 Undefined, Undefined, Undefined, Undefined),
    NullDevice }

\* Normalize on the device objects and manufacturer names of the model,
\* tabulated
NormalizeTable ==
  [device \in {d \in DeviceElements : d.kind = "object"},
   manufacturerName \in ManufacturerNames |->
     Normalize(device, manufacturerName)]

\* one iteration of `for (const device of devices)`: the categories after it
\* and whether it threw (reading a property of null throws before anything
\* is written)
FoldDevice(categories, device, manufacturerName) ==
  IF device.kind = "null"
    THEN [categories |-> categories, threw |-> TRUE]
    ELSE FoldNormalized(categories, NormalizeTable[device, manufacturerName])

\* the sequences over S of length lo..hi
SeqsOf(S, lo, hi) == UNION {[1..n -> S] : n \in lo..hi}

\* a parsed JSON body: not JSON at all, a value that is no array, or an array
InvalidJson == [kind |-> "invalid", items |-> <<>>]

NonArrayJson == [kind |-> "object", items |-> <<>>]

ArrayJson(items) == [kind |-> "array", items |-> items]

\* a variable declared by a statement the handler has not completed
NotAssigned == [kind |-> "undefined", items |-> <<>>]

\* a relay answer: HTTP status, status text and body; json is what
\* response.json() makes of the body, and text what response.text() resolves
\* to where the handler calls it, for an answer with a non-success status
RelayReply(status, statusText, json) ==
  [status |-> status, statusText |-> statusText, json |-> json, text |-> ""]

\* the text of a body whose reading fails
Unreadable == "unreadable"

RelayFailure(status, statusText, text) ==
  [status |-> status, statusText |-> statusText, json |-> InvalidJson,
   text |-> text]

\* no answer yet
NoReply == [status |-> 0, statusText |-> "", json |-> InvalidJson, text |-> ""]

\* the answers with a non-success status
RelayFailures ==
  { RelayFailure(403, "Forbidden", "{\"error\":\"Forbidden\"}"),
    RelayFailure(502, "Bad Gateway", Unreadable) }

ManufacturerReplies ==
  RelayFailures
    \cup {RelayReply(200, "OK", InvalidJson), RelayReply(200, "OK", NonArrayJson)}
    \cup {RelayReply(200, "OK", ArrayJson(l)) :
            l \in SeqsOf(ManufacturerElements, 0, MaxManufacturers)}

DeviceReplies ==
  RelayFailures
    \cup {RelayReply(200, "OK", InvalidJson), RelayReply(200, "OK", NonArrayJson)}
    \cup {RelayReply(200, "OK", ArrayJson(l)) :
            l \in SeqsOf(DeviceElements, 0, MaxDevices)}

\* the error messages the object store answers an upload with
UploadErrors == {"storage error 1", "storage error 2"}

\* no error: the null of `let uploadError = null` and of `{ error }`
Null == "null"

(***************************************************************************)
(* Publisher: the serve handler of fetchDeviceCatalog, one invocation.     *)
(***************************************************************************)
VARIABLES
  env,            \* which of INTERNAL_API_SECRET and the base URL are set
  pc,             \* where the handler is suspended
  manufacturers,  \* the parsed manufacturer list
  i,              \* index of the manufacturer loop
  devices,        \* the device list of manufacturer i
  j,              \* index of the next device of devices
  categories,     \* catalog.categories
  retryCount,     \* retryCount of the upload loop
  uploadError,    \* uploadError of the upload loop
  response,       \* the Response the handler returned
  stored,         \* catalogs/deviceCatalog.json in the object store
  requests,       \* the relay requests sent so far, in order
  steps,          \* per manufacturer handled: the relay answer and whether
                  \* its handling threw
  attempts,       \* number of upload calls made
  lastResult,     \* result of the latest upload call
  listReply,      \* the relay answer to the manufacturer list request
  prior           \* the object in the store when the invocation began

publisherVars ==
  <<env, pc, manufacturers, i, devices, j, categories, retryCount,
    uploadError, response, stored, requests, steps, attempts, lastResult,
    listReply, prior>>

maxManufacturers == 50

maxRetries == 3

\* faulty variant: nothing is cut off
sliceAll(arr, n) == arr

\* Array.prototype.slice(0, n)
slice(arr, n) == SubSeq(arr, 1, IF Len(arr) < n THEN Len(arr) ELSE n)

manufacturersToProcess == slice(manufacturers.items, maxManufacturers)

NoError == [text |-> "", status |-> 0, detail |-> "", body |-> ""]

\* a Response: the status, the fields of the JSON object in its body, and
\* the Error whose message and stack the fields error and details hold
NoResponse == [status |-> 0, fields |-> {}, error |-> NoError]

\* the Response of the outer catch for a thrown error
FailureResponse(error) ==
  [status |-> 500, fields |-> {"success", "error", "details"}, error |-> error]

SuccessResponse ==
  [status |-> 200, fields |-> {"success", "message", "lastUpdated", "stats"},
   error |-> NoError]

\* response.text().catch(() => 'Unknown error')
errorText(reply) == IF reply.text = Unreadable THEN "Unknown error" ELSE reply.text

\* the SyntaxError of response.json() for a body that is no JSON
JsonSyntaxError ==
  [text |-> "SyntaxError", status |-> 0, detail |-> "json", body |-> ""]

\* the TypeError of a property read on null or undefined
PropertyTypeError ==
  [text |-> "TypeError", status |-> 0, detail |-> "reading a property of null or undefined",
   body |-> ""]

\* faulty variant: the Error has the status only
TransportErrorStatusOnly(reply) ==
  [text |-> "Internal API request failed", status |-> reply.status,
   detail |-> "", body |-> ""]

\* the Error makeApiRequest throws on a reply that is not ok
TransportError(reply) ==
  [text |-> "Internal API request failed", status |-> reply.status,
   detail |-> reply.statusText, body |-> errorText(reply)]

\* response.ok
IsOk(reply) == reply.status >= 200 /\ reply.status <= 299

\* the object in the store before the invocation
PriorObject == [lastUpdated |-> 0, categories |-> EmptyCategories]

\* an object a previous invocation stored, with a brand and a model
EarlierObject ==
  [lastUpdated |-> 0,
   categories |->
     [EmptyCategories EXCEPT
        !["phone"] = <<[name |-> Samsung,
                        models |-> <<[name |-> <<"S">>,
                                      variants |-> <<<<"1">>>>]>>]>>]]

PriorObjects == {PriorObject, EarlierObject}

\* an invocation begins with object in the store
PublisherBegins(object) ==
  /\ stored = object
  /\ prior = object

\* the handler's variables when an invocation begins
PublisherStarts ==
  /\ env \in [secret : BOOLEAN, baseUrl : BOOLEAN]
  /\ pc = "start"
  /\ manufacturers = NotAssigned
  /\ i = 0
  /\ devices = <<>>
  /\ j = 0
  /\ categories = EmptyCategories
  /\ retryCount = 0
  /\ uploadError = Null
  /\ response = NoResponse
  /\ requests = <<>>
  /\ steps = <<>>
  /\ attempts = 0
  /\ lastResult = Null
  /\ listReply = NoReply

PublisherInit ==
  /\ PublisherBegins(PriorObject)
  /\ PublisherStarts

\* an invocation begins with any of the prior objects in the store
PublisherInitPrior ==
  /\ \E object \in PriorObjects : PublisherBegins(object)
  /\ PublisherStarts

VARIABLES
  bucket,         \* catalogs/deviceCatalog.json in the object store
  localFile,      \* data/deviceCatalog.json on the server's disk
  rpc,            \* where the GET handler is
  download,       \* how the download ended
  localRead,      \* whether the handler called readFileSync
  answer          \* the Response of the GET handler

readerVars == <<bucket, localFile, rpc, download, localRead, answer>>

VARIABLES
  edgeMethod,     \* req.method of the request to getDeviceCatalog
  edgePc,         \* where the getDeviceCatalog handler is
  edgeDownload,   \* how its download ended
  edgeAnswer      \* the Response of the getDeviceCatalog handler

edgeVars == <<edgeMethod, edgePc, edgeDownload, edgeAnswer>>

VARIABLES
  relayEnv,          \* INTERNAL_API_SECRET and MOBILEAPI_KEY of the relay
  relayRequest,      \* the POST request: X-Internal-Secret header and body
  relayPc,           \* where the POST handler is
  bodyRead,          \* whether the handler called request.json()
  upstreamRequests,  \* the requests sent to the upstream provider
  upstream,          \* how the upstream fetch ended
  relayAnswer        \* the Response of the POST handler

relayVars ==
  <<relayEnv, relayRequest, relayPc, bodyRead, upstreamRequests, upstream,
    relayAnswer>>

VARIABLES
  inv,            \* two overlapping invocations: the handler state of each
  started,        \* the invocations in the order they started
  writes          \* the invocations in the order their uploads succeeded

twoVars == <<inv, started, writes>>

VARIABLES
  call,           \* a call of one function of the device normalizer
  result          \* what the call returned

normalizerVars == <<call, result>>

\* the handler's state as one record, and the step that installs a record
State ==
  [env |-> env, pc |-> pc, manufacturers |-> manufacturers, i |-> i,
   devices |-> devices, j |-> j, categories |-> categories,
   retryCount |-> retryCount, uploadError |-> uploadError,
   response |-> response, stored |-> stored, requests |-> requests,
   steps |-> steps, attempts |-> attempts, lastResult |-> lastResult,
   listReply |-> listReply, prior |-> prior]

Becomes(n) ==
  \E m \in {n} :
    /\ env' = m.env
    /\ pc' = m.pc
    /\ manufacturers' = m.manufacturers
    /\ i' = m.i
    /\ devices' = m.devices
    /\ j' = m.j
    /\ categories' = m.categories
    /\ retryCount' = m.retryCount
    /\ uploadError' = m.uploadError
    /\ response' = m.response
    /\ stored' = m.stored
    /\ requests' = m.requests
    /\ steps' = m.steps
    /\ attempts' = m.attempts
    /\ lastResult' = m.lastResult
    /\ listReply' = m.listReply
    /\ prior' = m.prior
    /\ UNCHANGED <<readerVars, edgeVars, relayVars, twoVars, normalizerVars>>

\* a relay request as makeApiRequest sends it: the endpoint asked for
ManufacturersRequest == [endpoint |-> "/manufacturers/", manufacturer |-> <<>>]

DevicesRequest(manufacturerName) ==
  [endpoint |-> "/devices/by-manufacturer/", manufacturer |-> manufacturerName]

\* an error thrown outside the per-manufacturer try: the outer catch answers 500
Throw(st, error) ==
  [st EXCEPT !.pc = "done", !.response = FailureResponse(error)]

\* faulty variant: the length test is forgotten
NotArrayOnly(json) == json.kind # "array"

\* Array.isArray(x) && x.length > 0 negated: the test both list checks make
NotNonEmptyArray(json) == json.kind # "array" \/ Len(json.items) = 0

\* faulty variant: one retry too many
UploadLoopOneMore(count) == count <= maxRetries + 1

\* the condition of `while (retryCount <= maxRetries)`
UploadLoopContinues(count) == count <= maxRetries

\* faulty variant: the first error is kept
KeepFirstUploadError(previous, error) == IF previous = Null THEN error ELSE previous

\* what a failed attempt leaves in uploadError
RecordUploadError(previous, error) == error

\* the first upload call: the loop is entered with retryCount 0
BeginUpload(st) ==
  [st EXCEPT !.pc = "upload", !.retryCount = 0, !.uploadError = Null,
             !.attempts = @ + 1]

\* faulty variant: the run fails after the loop if any attempt failed
AfterUploadLoopByRetries(st) ==
  IF st.retryCount > 0
    THEN Throw(st, [text |-> "Failed to upload catalog to Storage after 3 retries",
                    status |-> 0, detail |-> st.lastResult, body |-> ""])
    ELSE [st EXCEPT !.pc = "done", !.response = SuccessResponse]

\* after the upload loop: throw on a remaining uploadError, else answer 200
AfterUploadLoop(st) ==
  IF st.uploadError # Null
    THEN Throw(st, [text |-> "Failed to upload catalog to Storage after 3 retries",
                    status |-> 0, detail |-> st.uploadError, body |-> ""])
    ELSE [st EXCEPT !.pc = "done", !.response = SuccessResponse]

\* faulty variant: the device list request is sent without the delay
EnterIterationNoThrottle(st, k) ==
  LET list == slice(st.manufacturers.items, maxManufacturers)
      at == [st EXCEPT !.i = k, !.devices = <<>>, !.j = 0]
  IN  IF k < Len(list)
        THEN IF list[k + 1].kind = "null"
               THEN Throw(at, PropertyTypeError)
               ELSE [at EXCEPT !.pc = "devices",
                               !.requests = Append(@, DevicesRequest(list[k + 1].name))]
        ELSE BeginUpload(at)

\* the head of the manufacturer loop for index k: leave the loop, or read
\* manufacturer.name (which throws on null, outside the try) and start the
\* throttle delay
EnterIteration(st, k) ==
  LET list == slice(st.manufacturers.items, maxManufacturers)
      at == [st EXCEPT !.i = k, !.devices = <<>>, !.j = 0]
  IN  IF k < Len(list)
        THEN IF list[k + 1].kind = "null"
               THEN Throw(at, [text |-> "TypeError", status |-> 0,
                               detail |-> "reading 'name' of null", body |-> ""])
               ELSE [at EXCEPT !.pc = "throttle"]
        ELSE BeginUpload(at)

\* faulty variant: the catch rethrows
RethrowManufacturerError(st) ==
  Throw(st, [text |-> "Failed to fetch devices", status |-> 0, detail |-> "", body |-> ""])

\* faulty variant: the catch tries the same manufacturer again
CatchRetriesManufacturer(st) == EnterIteration(st, st.i)

\* what the catch of the per-manufacturer try does with the iteration
CatchManufacturerError(st) == EnterIteration(st, st.i + 1)

\* faulty variant: the base URL is not checked
ConfigurationErrorSecretOnly(e) ==
  IF ~e.secret
    THEN [text |-> "INTERNAL_API_SECRET environment variable is not set",
          status |-> 0, detail |-> "", body |-> ""]
    ELSE NoError

\* the Error the configuration checks throw, NoError when they pass
ConfigurationError(e) ==
  IF ~e.secret
    THEN [text |-> "INTERNAL_API_SECRET environment variable is not set",
          status |-> 0, detail |-> "", body |-> ""]
  ELSE IF ~e.baseUrl
    THEN [text |-> "INTERNAL_API_BASE_URL or SITE_URL environment variable is not set",
          status |-> 0, detail |-> "", body |-> ""]
  ELSE NoError

\* the configuration checks, then the manufacturer list request
StartStep(st) ==
  IF ConfigurationError(st.env) # NoError
    THEN Throw(st, ConfigurationError(st.env))
    ELSE [st EXCEPT !.pc = "manufacturers",
                    !.requests = Append(@, ManufacturersRequest)]

Start ==
  /\ pc = "start"
  /\ Becomes(StartStep(State))

\* faulty variant: the catalog starts with the phone category alone
InitialCategoriesPhoneOnly(st) == [c \in {"phone"} |-> <<>>]

\* faulty variant: the catalog starts from the stored object
InitialCategoriesFromStore(st) == st.stored.categories

\* catalog.categories of the catalog a handler in state st initialises
InitialCategories(st) == EmptyCategories

\* the manufacturer list arrives: validation, catalog initialisation, loop entry
ManufacturersStep(st, reply) ==
  IF ~IsOk(reply) THEN Throw(st, TransportError(reply))
  ELSE IF reply.json.kind = "invalid"
    THEN Throw(st, JsonSyntaxError)
  ELSE LET got == [st EXCEPT !.manufacturers = reply.json]
       IN  IF NotNonEmptyArray(reply.json)
             THEN Throw(got, [text |-> "No manufacturers found or invalid response format",
                              status |-> 0, detail |-> "", body |-> ""])
             ELSE EnterIteration([got EXCEPT !.categories = InitialCategories(got)], 0)

ManufacturersReply ==
  /\ pc = "manufacturers"
  /\ \E reply \in ManufacturerReplies :
       Becomes(ManufacturersStep([State EXCEPT !.listReply = reply], reply))

\* the throttle delay is over: the device list request of manufacturer i
ThrottleStep(st) ==
  [st EXCEPT
     !.pc = "devices",
     !.requests = Append(@, DevicesRequest(
                    slice(st.manufacturers.items, maxManufacturers)[st.i + 1].name))]

ThrottleElapsed ==
  /\ pc = "throttle"
  /\ Becomes(ThrottleStep(State))

\* the device list arrives
DevicesStep(st, reply) ==
  IF ~IsOk(reply) \/ reply.json.kind = "invalid"
    THEN CatchManufacturerError(
           [st EXCEPT !.steps = Append(@, [reply |-> reply, threw |-> TRUE,
                                           error |-> IF ~IsOk(reply)
                                                       THEN TransportError(reply)
                                                       ELSE JsonSyntaxError])])
  ELSE LET seen == [st EXCEPT !.steps = Append(@, [reply |-> reply, threw |-> FALSE,
                                                   error |-> NoError])]
       IN  IF NotNonEmptyArray(reply.json)
             THEN EnterIteration(seen, st.i + 1)
             ELSE [seen EXCEPT !.pc = "fold", !.devices = reply.json.items, !.j = 0]

DevicesReply ==
  /\ pc = "devices"
  /\ \E reply \in DeviceReplies : Becomes(DevicesStep(State, reply))

\* one iteration of the device loop
DeviceStep(st) ==
  LET manufacturerName == slice(st.manufacturers.items, maxManufacturers)[st.i + 1].name
      r == FoldDevice(st.categories, st.devices[st.j + 1], manufacturerName)
      folded == [st EXCEPT !.categories = r.categories]
  IN  IF r.threw
        THEN CatchManufacturerError(
               [folded EXCEPT !.steps[Len(st.steps)].threw = TRUE,
                              !.steps[Len(st.steps)].error = PropertyTypeError])
      ELSE IF st.j + 1 = Len(st.devices)
        THEN EnterIteration(folded, st.i + 1)
      ELSE [folded EXCEPT !.j = st.j + 1]

FoldStep ==
  /\ pc = "fold"
  /\ Becomes(DeviceStep(State))

\* faulty variant: an object uploaded earlier is not overwritten
KeepEarlierUpload(existing, object) ==
  IF existing.lastUpdated = 1 THEN existing ELSE object

\* upload(..., { upsert: true }): the object replaces the existing one
Upsert(existing, object) == object

\* an upload call returns { error }
UploadStep(st, error) ==
  IF error = Null
    THEN AfterUploadLoop(
           [st EXCEPT !.lastResult = error, !.uploadError = Null,
                      !.stored = Upsert(@, [lastUpdated |-> 1,
                                            categories |-> st.categories])])
  ELSE LET failed == [st EXCEPT !.lastResult = error,
                                !.uploadError = RecordUploadError(@, error),
                                !.retryCount = @ + 1]
       IN  IF UploadLoopContinues(failed.retryCount)
             THEN [failed EXCEPT !.pc = "retryDelay"]
             ELSE AfterUploadLoop(failed)

UploadReply ==
  /\ pc = "upload"
  /\ \E error \in UploadErrors \cup {Null} : Becomes(UploadStep(State, error))

\* the delay before a retry is over: the next upload call
RetryDelayStep(st) == [st EXCEPT !.pc = "upload", !.attempts = @ + 1]

RetryDelayElapsed ==
  /\ pc = "retryDelay"
  /\ Becomes(RetryDelayStep(State))

PublisherNext ==
  \/ Start
  \/ ManufacturersReply
  \/ ThrottleElapsed
  \/ DevicesReply
  \/ FoldStep
  \/ UploadReply
  \/ RetryDelayElapsed

\* a manufacturer list of n objects: Samsung last, Apple before it
LongList(n) ==
  [k \in 1..n |-> ManufacturerObject(IF k = n THEN Samsung ELSE Apple)]

\* manufacturer lists about as long as the cap: one shorter, as long, longer
LongManufacturerReplies ==
  {RelayReply(200, "OK", ArrayJson(LongList(n))) :
     n \in (maxManufacturers - 1)..MaxListLen}

\* the manufacturer list arrives, a long one
ManufacturersReplyLong ==
  /\ pc = "manufacturers"
  /\ \E reply \in LongManufacturerReplies :
       Becomes(ManufacturersStep([State EXCEPT !.listReply = reply], reply))

\* a few device list answers: a refusal, a list of one device, a list whose
\* first element is null
FewDeviceReplies ==
  {RelayFailure(403, "Forbidden", "{\"error\":\"Forbidden\"}")}
    \cup {RelayReply(200, "OK", ArrayJson(<<d>>)) :
            d \in {e \in DeviceElements : e.kind = "null" \/ Truthy(e.brand)}}

\* the device list arrives, one of the few, where the relay answers every
\* device list request of the invocation alike
DevicesReplyFew ==
  /\ pc = "devices"
  /\ \E reply \in FewDeviceReplies :
       /\ steps # <<>> => reply = steps[Len(steps)].reply
       /\ Becomes(DevicesStep(State, reply))

\* the device list arrives, where the relay answers every device list
\* request of the invocation alike
DevicesReplyAlike ==
  /\ pc = "devices"
  /\ \E reply \in DeviceReplies :
       /\ steps # <<>> => reply = steps[Len(steps)].reply
       /\ Becomes(DevicesStep(State, reply))

(***************************************************************************)
(* Two invocations of the publisher that overlap.  Each runs the handler's *)
(* steps on its own state; the object store is shared, and an upload is    *)
(* one step.                                                               *)
(***************************************************************************)
Invocations == {1, 2}

\* the handler state of an invocation that has not started
NotStarted ==
  [env |-> [secret |-> TRUE, baseUrl |-> TRUE], pc |-> "start",
   manufacturers |-> NotAssigned, i |-> 0, devices |-> <<>>, j |-> 0,
   categories |-> EmptyCategories, retryCount |-> 0, uploadError |-> Null,
   response |-> NoResponse, stored |-> PriorObject, requests |-> <<>>,
   steps |-> <<>>, attempts |-> 0, lastResult |-> Null,
   listReply |-> NoReply, prior |-> PriorObject]

\* where no second invocation runs
TwoUnused ==
  /\ inv = [p \in Invocations |-> NotStarted]
  /\ started = <<>>
  /\ writes = <<>>

\* what the relay and the store answer the two invocations: one
\* manufacturer or a refusal, a list with one device or none, one kind of
\* upload error
TwoManufacturerReplies ==
  {RelayFailure(403, "Forbidden", "{\"error\":\"Forbidden\"}"),
   RelayReply(200, "OK", ArrayJson(<<ManufacturerObject(Apple)>>))}

TwoDeviceReplies ==
  {RelayReply(200, "OK", ArrayJson(l)) :
     l \in SeqsOf({d \in DeviceElements : Truthy(d.storage) \/ Truthy(d.brand)}, 0, 1)}

TwoUploadErrors == {"storage error 1"}

\* invocation p takes the step that leads to handler state n; the store is
\* the one thing the invocations share
TwoBecomes(p, n) ==
  /\ inv' = [inv EXCEPT ![p] = [n EXCEPT !.stored = PriorObject]]
  /\ stored' = n.stored
  /\ UNCHANGED <<env, pc, manufacturers, i, devices, j, categories, retryCount,
                 uploadError, response, requests, steps, attempts,
                 lastResult, listReply, prior>>
  /\ UNCHANGED <<readerVars, edgeVars, relayVars, normalizerVars>>

\* the handler state of invocation p with the store as it is now
Seen(p) == [inv[p] EXCEPT !.stored = stored]

TwoStart(p) ==
  /\ inv[p].pc = "start"
  /\ TwoBecomes(p, StartStep(Seen(p)))
  /\ started' = Append(started, p)
  /\ UNCHANGED writes

TwoManufacturersReply(p) ==
  /\ inv[p].pc = "manufacturers"
  /\ \E reply \in TwoManufacturerReplies :
       TwoBecomes(p, ManufacturersStep([Seen(p) EXCEPT !.listReply = reply], reply))
  /\ UNCHANGED <<started, writes>>

TwoThrottleElapsed(p) ==
  /\ inv[p].pc = "throttle"
  /\ TwoBecomes(p, ThrottleStep(Seen(p)))
  /\ UNCHANGED <<started, writes>>

TwoDevicesReply(p) ==
  /\ inv[p].pc = "devices"
  /\ \E reply \in TwoDeviceReplies : TwoBecomes(p, DevicesStep(Seen(p), reply))
  /\ UNCHANGED <<started, writes>>

TwoFoldStep(p) ==
  /\ inv[p].pc = "fold"
  /\ TwoBecomes(p, DeviceStep(Seen(p)))
  /\ UNCHANGED <<started, writes>>

TwoUploadReply(p) ==
  /\ inv[p].pc = "upload"
  /\ \E error \in TwoUploadErrors \cup {Null} :
       /\ TwoBecomes(p, UploadStep(Seen(p), error))
       /\ writes' = IF error = Null THEN Append(writes, p) ELSE writes
  /\ UNCHANGED started

TwoRetryDelayElapsed(p) ==
  /\ inv[p].pc = "retryDelay"
  /\ TwoBecomes(p, RetryDelayStep(Seen(p)))
  /\ UNCHANGED <<started, writes>>

(***************************************************************************)
(* JSON texts.  A text is a sequence of tokens; JSON.parse skips the white *)
(* space between tokens and accepts a value: the scalar a, or an array of  *)
(* values in brackets separated by commas.  A parsed value is a record     *)
(* [kind, items].                                                          *)
(***************************************************************************)
JsonTokens == {"[", "]", ",", "a", " "}

JsonScalar == [kind |-> "scalar", items |-> <<>>]

JsonArray(items) == [kind |-> "array", items |-> items]

ParseFailure == [ok |-> FALSE, value |-> JsonScalar, rest |-> <<>>]

\* the tokens of a text that are not white space
SkipWhiteSpace(text) == SelectSeq(text, LAMBDA t : t \notin WhiteSpace)

RECURSIVE ParseValue(_)
RECURSIVE ParseItems(_, _)

\* one value at the head of tokens: the value and the tokens after it
ParseValue(tokens) ==
  IF tokens = <<>> THEN ParseFailure
  ELSE IF Head(tokens) = "a"
    THEN [ok |-> TRUE, value |-> JsonScalar, rest |-> Tail(tokens)]
  ELSE IF Head(tokens) = "["
    THEN IF Len(tokens) >= 2 /\ tokens[2] = "]"
           THEN [ok |-> TRUE, value |-> JsonArray(<<>>), rest |-> Tail(Tail(tokens))]
           ELSE ParseItems(Tail(tokens), <<>>)
  ELSE ParseFailure

\* the items of an array after "[" or ",": a value, then "," or "]"
ParseItems(tokens, items) ==
  LET r == ParseValue(tokens)
  IN  IF ~r.ok \/ r.rest = <<>> THEN ParseFailure
      ELSE IF Head(r.rest) = "]"
        THEN [ok |-> TRUE, value |-> JsonArray(Append(items, r.value)),
              rest |-> Tail(r.rest)]
      ELSE IF Head(r.rest) = ","
        THEN ParseItems(Tail(r.rest), Append(items, r.value))
      ELSE ParseFailure

\* JSON.parse: ok is FALSE where it throws a SyntaxError
JsonParse(text) ==
  LET r == ParseValue(SkipWhiteSpace(text))
  IN  IF r.ok /\ r.rest = <<>> THEN [ok |-> TRUE, value |-> r.value]
      ELSE [ok |-> FALSE, value |-> JsonScalar]

\* JSON.stringify without indentation
RECURSIVE JsonStringify(_)
RECURSIVE JoinItems(_)
JoinItems(items) ==
  IF items = <<>> THEN <<>>
  ELSE IF Len(items) = 1 THEN JsonStringify(items[1])
  ELSE JsonStringify(Head(items)) \o <<",">> \o JoinItems(Tail(items))

JsonStringify(value) ==
  IF value.kind = "scalar" THEN <<"a">>
  ELSE <<"[">> \o JoinItems(value.items) \o <<"]">>

(***************************************************************************)
(* API-route reader: GET /api/device-catalog.json, one request.            *)
(***************************************************************************)
\* a file or stored object that does not exist, and one holding a text
Missing == [exists |-> FALSE, text |-> <<>>]

Holding(text) == [exists |-> TRUE, text |-> text]

\* what catalogs/deviceCatalog.json can hold
BucketObjects == {Missing} \cup {Holding(t) : t \in SeqsOf(JsonTokens, 0, MaxTextLen)}

\* what data/deviceCatalog.json can hold
LocalFiles == {Missing} \cup {Holding(t) : t \in SeqsOf(JsonTokens, 0, MaxLocalLen)}

\* how storage.from('catalogs').download(...) can end: it resolves with
\* data, with an error, with neither, or it throws
DownloadOutcomes == {"data", "error", "empty", "throws"}

\* an answer: status, the headers Cache-Control (maxAge) and X-Catalog-Source,
\* and the body: the JSON text of a catalog, or for an error the fields of
\* the object with its error and message
NoAnswer ==
  [status |-> 0, body |-> <<>>, maxAge |-> 0, source |-> "", fields |-> {},
   error |-> "", message |-> ""]

\* the Response of the primary path
PrimaryAnswer(catalog) ==
  [status |-> 200, body |-> JsonStringify(catalog), maxAge |-> 3600,
   source |-> "supabase-storage", fields |-> {}, error |-> "", message |-> ""]

\* faulty variant: the fallback answers with the headers of the primary path
FallbackAnswerAsPrimary(catalog) == PrimaryAnswer(catalog)

\* the Response of the fallback path
FallbackAnswer(catalog) ==
  [status |-> 200, body |-> JsonStringify(catalog), maxAge |-> 300,
   source |-> "local-fallback", fields |-> {}, error |-> "", message |-> ""]

\* the Response of the outer catch for a thrown error
UnexpectedAnswer(message) ==
  [status |-> 500, body |-> <<>>, maxAge |-> 0, source |-> "",
   fields |-> {"error", "message"},
   error |-> "Internal server error", message |-> message]

\* faulty variant: the failure of the local file is left to the outer catch
BothFailedAnswerUnexpected == UnexpectedAnswer("ENOENT: no such file or directory")

\* the Response of the catch around the fallback
BothFailedAnswer ==
  [status |-> 500, body |-> <<>>, maxAge |-> 0, source |-> "",
   fields |-> {"error", "message"},
   error |-> "Failed to load device catalog",
   message |-> "Both Supabase Storage and local file failed. Please ensure the catalogs bucket exists in Supabase Storage or the local file is available."]

\* the inner try of the primary path: the parsed catalog, or ok FALSE when
\* the download gave an error or no data, threw, or its text did not parse
PrimaryPath(outcome, object) ==
  IF outcome = "data" THEN JsonParse(object.text)
  ELSE [ok |-> FALSE, value |-> JsonScalar]

\* the fallback: readFileSync and JSON.parse of the local file
FallbackPath(file) ==
  IF file.exists THEN JsonParse(file.text)
  ELSE [ok |-> FALSE, value |-> JsonScalar]

\* the handler from the result of the download to its Response
GetStep(outcome, object, file) ==
  LET primary == PrimaryPath(outcome, object)
      fallback == FallbackPath(file)
  IN  IF primary.ok
        THEN [answer |-> PrimaryAnswer(primary.value), localRead |-> FALSE]
      ELSE IF fallback.ok
        THEN [answer |-> FallbackAnswer(fallback.value), localRead |-> TRUE]
      ELSE [answer |-> BothFailedAnswer, localRead |-> TRUE]

ReaderIdle ==
  /\ rpc = "idle"
  /\ download = "none"
  /\ localRead = FALSE
  /\ answer = NoAnswer

\* GET arrives: the handler starts the download
ReaderGet ==
  /\ rpc = "idle"
  /\ rpc' = "downloading"
  /\ UNCHANGED <<bucket, localFile, download, localRead, answer>>
  /\ UNCHANGED <<publisherVars, edgeVars, relayVars, twoVars, normalizerVars>>

\* the download ends; a download resolves with data only when the object
\* exists
DownloadReturns ==
  /\ rpc = "downloading"
  /\ \E outcome \in DownloadOutcomes :
       /\ outcome = "data" => bucket.exists
       /\ download' = outcome
       /\ LET r == GetStep(outcome, bucket, localFile)
          IN  /\ answer' = r.answer
              /\ localRead' = r.localRead
  /\ rpc' = "done"
  /\ UNCHANGED <<bucket, localFile>>
  /\ UNCHANGED <<publisherVars, edgeVars, relayVars, twoVars, normalizerVars>>


(***************************************************************************)
(* Private-bucket reader: the serve handler of getDeviceCatalog, one       *)
(* request.                                                                *)
(***************************************************************************)
Methods == {"GET", "POST", "OPTIONS"}

\* the error the download resolved with, and the errors thrown inside the try
StorageError == [name |-> "StorageApiError", message |-> "Object not found"]

SyntaxError == [name |-> "SyntaxError", message |-> "Unexpected token in JSON"]

TypeErrorOfNull == [name |-> "TypeError", message |-> "Cannot read properties of null (reading 'text')"]

FetchError == [name |-> "TypeError", message |-> "fetch failed"]

\* the Response to the CORS preflight: the text ok, status 200
PreflightAnswer ==
  [status |-> 200, body |-> <<"o", "k">>, maxAge |-> 0, source |-> "",
   fields |-> {}, error |-> "", message |-> ""]

\* the Response with the catalog
CatalogAnswer(catalog) ==
  [status |-> 200, body |-> JsonStringify(catalog), maxAge |-> 3600,
   source |-> "", fields |-> {}, error |-> "", message |-> ""]

\* faulty variant: the body carries the message of the error
EdgeErrorAnswerWithMessage(text, error) ==
  [status |-> 500, body |-> <<>>, maxAge |-> 0, source |-> "",
   fields |-> {"error", "message"}, error |-> text, message |-> error.message]

\* an error Response: { error: text } for whatever error brought it about
EdgeErrorAnswer(text, error) ==
  [status |-> 500, body |-> <<>>, maxAge |-> 0, source |-> "",
   fields |-> {"error"}, error |-> text, message |-> ""]

\* the error that ends the try for a download outcome and stored object, or
\* no error: ok is TRUE and value the parsed catalog
EdgeTry(outcome, object) ==
  IF outcome = "error"
    THEN [ok |-> FALSE, caught |-> FALSE, error |-> StorageError, value |-> JsonScalar]
  ELSE IF outcome = "throws"
    THEN [ok |-> FALSE, caught |-> TRUE, error |-> FetchError, value |-> JsonScalar]
  ELSE IF outcome = "empty"
    THEN [ok |-> FALSE, caught |-> TRUE, error |-> TypeErrorOfNull, value |-> JsonScalar]
  ELSE IF ~JsonParse(object.text).ok
    THEN [ok |-> FALSE, caught |-> TRUE, error |-> SyntaxError, value |-> JsonScalar]
  ELSE [ok |-> TRUE, caught |-> FALSE, error |-> SyntaxError,
        value |-> JsonParse(object.text).value]

\* the handler from the result of the download to its Response
EdgeStep(outcome, object) ==
  LET r == EdgeTry(outcome, object)
  IN  IF r.ok THEN CatalogAnswer(r.value)
      ELSE IF r.caught THEN EdgeErrorAnswer("Internal server error", r.error)
      ELSE EdgeErrorAnswer("Failed to fetch device catalog", r.error)

EdgeIdle ==
  /\ edgePc = "idle"
  /\ edgeDownload = "none"
  /\ edgeAnswer = NoAnswer

\* the request arrives: the preflight is answered at once, any other method
\* starts the download
EdgeRequest ==
  /\ edgePc = "idle"
  /\ IF edgeMethod = "OPTIONS"
       THEN edgePc' = "done" /\ edgeAnswer' = PreflightAnswer
       ELSE edgePc' = "downloading" /\ edgeAnswer' = edgeAnswer
  /\ UNCHANGED <<edgeMethod, edgeDownload>>
  /\ UNCHANGED <<publisherVars, readerVars, relayVars, twoVars, normalizerVars>>

\* the download ends; it resolves with data only when the object exists
EdgeDownloadReturns ==
  /\ edgePc = "downloading"
  /\ \E outcome \in DownloadOutcomes :
       /\ outcome = "data" => bucket.exists
       /\ edgeDownload' = outcome
       /\ edgeAnswer' = EdgeStep(outcome, bucket)
  /\ edgePc' = "done"
  /\ UNCHANGED edgeMethod
  /\ UNCHANGED <<publisherVars, readerVars, relayVars, twoVars, normalizerVars>>

(***************************************************************************)
(* Relay: POST /api/internal/fetch-catalog-data, one request.              *)
(***************************************************************************)
\* values of INTERNAL_API_SECRET in the relay's environment: unset, empty,
\* set; and of the X-Internal-Secret header: absent, empty, equal, different
InternalSecrets == {Undefined, Some(<<>>), Some(<<"s", "1">>)}

ProvidedSecrets == {Undefined, Some(<<>>), Some(<<"s", "1">>), Some(<<"s", "2">>)}

\* values of MOBILEAPI_KEY: unset, empty or set
MobileApiKeys == {Undefined, Some(<<>>), Some(<<"k">>)}

\* the endpoint property of a body: absent, a number, or a string
NoEndpoint == [type |-> "undefined", value |-> <<>>]

NumberEndpoint == [type |-> "number", value |-> <<>>]

StringEndpoint(value) == [type |-> "string", value |-> value]

Endpoints ==
  {NoEndpoint, NumberEndpoint}
    \cup {StringEndpoint(v) :
            v \in {<<>>, <<"/", "m">>, <<"d">>, <<"h", "t", "t", "p", ":", "/", "/", "e">>, <<"h", "t", "t", "p", "s", ":", "/", "/", "e">>}}

\* what request.json() can meet: a text that is no JSON, the JSON null, a
\* JSON number, or an object with its endpoint property
RelayBodies ==
  {[kind |-> "invalid", endpoint |-> NoEndpoint],
   [kind |-> "null", endpoint |-> NoEndpoint],
   [kind |-> "number", endpoint |-> NoEndpoint]}
    \cup {[kind |-> "object", endpoint |-> e] : e \in Endpoints}

baseUrl == <<"h", "t", "t", "p", "s", ":", "/", "/", "a", "p", "i", ".", "m", "o", "b", "i", "l", "e", "a", "p", "i", ".", "d", "e", "v">>

\* the URL the relay fetches for rawEndpoint
targetUrl(rawEndpoint) ==
  IF startsWith(rawEndpoint, <<"h", "t", "t", "p", ":", "/", "/">>) \/ startsWith(rawEndpoint, <<"h", "t", "t", "p", "s", ":", "/", "/">>)
    THEN rawEndpoint
    ELSE baseUrl \o (IF startsWith(rawEndpoint, <<"/">>) THEN <<>> ELSE <<"/">>)
           \o rawEndpoint

\* the upstream request: GET targetUrl with Authorization: Token <key>
UpstreamRequest(url, key) == [method |-> "GET", url |-> url, token |-> key]

\* how the upstream fetch can end: it throws, or it resolves with a
\* response; a response with status 204 has no content
UpstreamThrows ==
  [kind |-> "throws", status |-> 0, text |-> "", contentType |-> "none"]

UpstreamStatuses == {200, 204, 404, 500}

UpstreamTexts == {"", "[{\"name\":\"Apple\"}]", "{\"detail\":\"Not found.\"}"}

UpstreamResults ==
  {UpstreamThrows}
    \cup {[kind |-> "response", status |-> st, text |-> t, contentType |-> c] :
            st \in UpstreamStatuses \ {204}, t \in UpstreamTexts,
            c \in {"none", "application/json", "text/html"}}
    \cup {[kind |-> "response", status |-> 204, text |-> "", contentType |-> c] :
            c \in {"none", "application/json"}}

NotFetched ==
  [kind |-> "none", status |-> 0, text |-> "", contentType |-> "none"]

\* a Response of the relay: the status, the Content-Type header, and the
\* body: a text passed on, or the fields of a JSON object with its error
\* and message
NoRelayAnswer ==
  [status |-> 0, contentType |-> "none", text |-> "", fields |-> {},
   error |-> "", message |-> ""]

\* the Response with the body { error }
RelayErrorAnswer(status, error) ==
  [status |-> status, contentType |-> "application/json", text |-> "",
   fields |-> {"error"}, error |-> error, message |-> ""]

\* the Response of the catch for a thrown Error
RelayCatchAnswer(message) ==
  [status |-> 500, contentType |-> "application/json", text |-> "",
   fields |-> {"error", "message"}, error |-> "Internal server error",
   message |-> message]

\* faulty variant: only a missing header is refused
SecretMissingOnly(providedSecret, internalSecret) == ~Truthy(providedSecret)

\* !providedSecret || providedSecret !== internalSecret
SecretRefused(providedSecret, internalSecret) ==
  ~Truthy(providedSecret) \/ providedSecret # internalSecret

\* faulty variant: the length of the endpoint is not tested
InvalidBodyNoLength(body) ==
  body.kind \in {"invalid", "null"} \/ body.endpoint.type # "string"

\* !body || typeof body.endpoint !== 'string' || body.endpoint.length === 0,
\* where body is null after request.json() threw
InvalidBody(body) ==
  \/ body.kind \in {"invalid", "null"}
  \/ body.endpoint.type # "string"
  \/ Len(body.endpoint.value) = 0

\* the statuses the Response constructor accepts only with a null body
NullBodyStatuses == {101, 103, 204, 205, 304}

\* new Response(responseText, { status, headers }) for the upstream
\* response: the constructor throws for a null body status, as the text of
\* a response, even the empty one, is a body
RelayedAnswer(up) ==
  IF up.status \in NullBodyStatuses
    THEN RelayCatchAnswer("Response constructor: Invalid response status code")
    ELSE [status |-> up.status,
          contentType |-> IF up.contentType = "none" THEN "application/json"
                          ELSE up.contentType,
          text |-> up.text, fields |-> {}, error |-> "", message |-> ""]

\* faulty variant: only an unset key is refused
KeyUnsetOnly(mobileApiKey) == mobileApiKey = Undefined

\* !mobileApiKey
KeyMissing(mobileApiKey) == ~Truthy(mobileApiKey)

\* the handler from its start to its Response or to the upstream fetch
PostStep(e, request) ==
  IF ~Truthy(e.secret)
    THEN [pc |-> "done", bodyRead |-> FALSE, sent |-> <<>>,
          answer |-> RelayErrorAnswer(500, "Internal server configuration error")]
  ELSE IF SecretRefused(request.secret, e.secret)
    THEN [pc |-> "done", bodyRead |-> FALSE, sent |-> <<>>,
          answer |-> RelayErrorAnswer(403, "Forbidden")]
  ELSE IF InvalidBody(request.body)
    THEN [pc |-> "done", bodyRead |-> TRUE, sent |-> <<>>,
          answer |-> RelayErrorAnswer(400, "Invalid request body. Expected JSON with an \"endpoint\" string.")]
  ELSE IF KeyMissing(e.key)
    THEN [pc |-> "done", bodyRead |-> TRUE, sent |-> <<>>,
          answer |-> RelayErrorAnswer(500, "MobileAPI configuration error")]
  ELSE [pc |-> "upstream", bodyRead |-> TRUE,
        sent |-> <<UpstreamRequest(targetUrl(request.body.endpoint.value), e.key)>>,
        answer |-> NoRelayAnswer]

\* the relay before a request
RelayIdle ==
  /\ relayPc = "idle"
  /\ bodyRead = FALSE
  /\ upstreamRequests = <<>>
  /\ upstream = NotFetched
  /\ relayAnswer = NoRelayAnswer

\* the relay where no request is sent to it
RelayUnused ==
  /\ relayEnv = [secret |-> Undefined, key |-> Undefined]
  /\ relayRequest = [secret |-> Undefined,
                     body |-> [kind |-> "invalid", endpoint |-> NoEndpoint]]
  /\ RelayIdle

\* POST arrives
RelayPost ==
  /\ relayPc = "idle"
  /\ LET r == PostStep(relayEnv, relayRequest)
     IN  /\ relayPc' = r.pc
         /\ bodyRead' = r.bodyRead
         /\ upstreamRequests' = upstreamRequests \o r.sent
         /\ relayAnswer' = r.answer
  /\ UNCHANGED <<relayEnv, relayRequest, upstream>>
  /\ UNCHANGED <<publisherVars, readerVars, edgeVars, twoVars, normalizerVars>>

\* the upstream fetch ends
UpstreamReturns ==
  /\ relayPc = "upstream"
  /\ \E up \in UpstreamResults :
       /\ upstream' = up
       /\ relayAnswer' = IF up.kind = "throws" THEN RelayCatchAnswer("fetch failed")
                         ELSE RelayedAnswer(up)
  /\ relayPc' = "done"
  /\ UNCHANGED <<relayEnv, relayRequest, bodyRead, upstreamRequests>>
  /\ UNCHANGED <<publisherVars, readerVars, edgeVars, twoVars, normalizerVars>>

(***************************************************************************)
(* Device Normalizer: calls of its functions on their own.                 *)
(***************************************************************************)
RECURSIVE Concat(_)
Concat(parts) ==
  IF parts = <<>> THEN <<>> ELSE Head(parts) \o Concat(Tail(parts))

\* the words joined by single spaces
RECURSIVE JoinWords(_)
JoinWords(words) ==
  IF Len(words) = 1 THEN words[1]
  ELSE words[1] \o <<" ">> \o JoinWords(Tail(words))

\* the longest name the inputs are made of, in parts
MaxNameParts == 3

\* device names for categorizeDevice: made of the words its rules look for,
\* in either case, of "let" (which after "tab" spells tablet), of a letter
\* no rule looks for and of a space
CategoryNameParts ==
  { <<"t", "a", "b">>, <<"l", "e", "t">>, <<"i", "P", "a", "d">>, <<"W", "A", "T", "C", "H">>,
    <<"B", "a", "n", "d">>, <<"x">>, <<" ">> }

CategoryDeviceNames ==
  {Concat(parts) : parts \in SeqsOf(CategoryNameParts, 1, MaxNameParts)}

\* device names for extractModelName: words of a brand in two cases, of a
\* model, of the storage and colour vocabularies and a word of neither,
\* and the name of the documented example
ExampleDeviceName ==
  <<"S", "a", "m", "s", "u", "n", "g", " ", "G", "a", "l", "a", "x", "y", " ", "S", "2", "1", " ", "1", "2", "8", "G", "B", " ", "B", "l", "a", "c", "k">>

ModelNameWords ==
  { Samsung, <<"S", "A", "M", "S", "U", "N", "G">>, <<"G", "a", "l", "a", "x", "y">>, <<"S", "2", "1">>,
    <<"1", "2", "8", "G", "B">>, <<"B", "l", "a", "c", "k">>, <<"E", "d", "i", "t", "i", "o", "n">> }

ModelDeviceNames ==
  {JoinWords(words) : words \in SeqsOf(ModelNameWords, 1, MaxNameParts)}
    \cup {ExampleDeviceName}

\* device records for the brand resolution: each of the three fields is
\* absent, empty or set
BrandDevices ==
  {DeviceObject(Some(<<"x">>), brand, manufacturer_name, brand_name, Undefined) :
     brand \in {Undefined, Some(<<>>), Some(<<"N">>)},
     manufacturer_name \in {Undefined, Some(<<>>), Some(<<"M">>)},
     brand_name \in {Undefined, Some(<<>>), Some(<<"F">>)}}

NormalizerCall(fn, deviceName, brandName, device, manufacturerName) ==
  [fn |-> fn, deviceName |-> deviceName, brandName |-> brandName,
   device |-> device, manufacturerName |-> manufacturerName]

NormalizerCalls ==
  {NormalizerCall("categorizeDevice", deviceName, <<>>, NullDevice, <<>>) :
     deviceName \in CategoryDeviceNames}
    \cup {NormalizerCall("extractModelName", deviceName, brandName, NullDevice, <<>>) :
            deviceName \in ModelDeviceNames, brandName \in ManufacturerNames}
    \cup {NormalizerCall("brandName", <<>>, <<>>, device, manufacturerName) :
            device \in BrandDevices, manufacturerName \in ManufacturerNames}

NoCall == NormalizerCall("none", <<>>, <<>>, NullDevice, <<>>)

NotReturned == [done |-> FALSE, value |-> <<>>]

Returned(value) == [done |-> TRUE, value |-> value]

NormalizerUnused ==
  /\ call = NoCall
  /\ result = NotReturned

\* categorizeDevice returns
CategorizeDevice ==
  /\ call.fn = "categorizeDevice"
  /\ ~result.done
  /\ result' = Returned(categorizeDevice(call.deviceName))
  /\ UNCHANGED <<call, publisherVars, readerVars, edgeVars, relayVars, twoVars>>

\* extractModelName returns
ExtractModelName ==
  /\ call.fn = "extractModelName"
  /\ ~result.done
  /\ result' = Returned(extractModelName(call.deviceName, call.brandName))
  /\ UNCHANGED <<call, publisherVars, readerVars, edgeVars, relayVars, twoVars>>

\* the handler's brandName expression is evaluated
ResolveBrandName ==
  /\ call.fn = "brandName"
  /\ ~result.done
  /\ result' = Returned(BrandNameOf(call.device, call.manufacturerName))
  /\ UNCHANGED <<call, publisherVars, readerVars, edgeVars, relayVars, twoVars>>

(***************************************************************************)
(* The fold on its own: device records folded into the catalog in any      *)
(* order, from any manufacturer's list.                                    *)
(***************************************************************************)
\* device records that share the model "S" and bring different storage
\* fields, with a tablet, a name Object.prototype defines and a null
FoldDevices ==
  { DeviceObject(Some(<<"S">>), Undefined, Undefined, Undefined, Some(<<"1">>)),
    DeviceObject(Some(<<"S">>), Undefined, Undefined, Undefined,
                 Some(<<"2", ",", "1">>)),
    DeviceObject(Some(<<"S">>), Undefined, Undefined, Undefined, Undefined),
    DeviceObject(Some(<<"i", "P", "a", "d">>),
                 Some(Apple), Undefined, Undefined, Undefined),
    DeviceObject(Some(<<"v", "a", "l", "u", "e", "O", "f">>),
                 Undefined, Undefined, Undefined, Undefined),
    NullDevice }

\* one iteration of `for (const device of devices)` on any device record
FoldRecord(cats, device, manufacturerName) ==
  IF device.kind = "null"
    THEN [categories |-> cats, threw |-> TRUE]
    ELSE FoldNormalized(cats, Normalize(device, manufacturerName))

\* one device record is folded into the catalog
FoldOne ==
  \E device \in FoldDevices, manufacturerName \in ManufacturerNames :
    /\ categories' = FoldRecord(categories, device, manufacturerName).categories
    /\ UNCHANGED <<env, pc, manufacturers, i, devices, j, retryCount,
                   uploadError, response, stored, requests, steps, attempts,
                   lastResult, listReply, prior>>
    /\ UNCHANGED <<readerVars, edgeVars, relayVars, twoVars, normalizerVars>>

(***************************************************************************)
(* Specifications.  Spec is one invocation of the publisher, SpecReader    *)
(* one request to the API-route reader for every content of the bucket     *)
(* and of the local file.                                                  *)
(***************************************************************************)
vars == <<publisherVars, readerVars, edgeVars, relayVars, twoVars, normalizerVars>>

Init ==
  /\ PublisherInit
  /\ bucket = Missing
  /\ localFile = Missing
  /\ ReaderIdle
  /\ edgeMethod = "GET"
  /\ EdgeIdle
  /\ TwoUnused
  /\ NormalizerUnused
  /\ RelayUnused

Next == PublisherNext

Spec == Init /\ [][Next]_vars

InitReader ==
  /\ PublisherInit
  /\ env = [secret |-> TRUE, baseUrl |-> TRUE]
  /\ bucket \in BucketObjects
  /\ localFile \in LocalFiles
  /\ ReaderIdle
  /\ edgeMethod = "GET"
  /\ EdgeIdle
  /\ TwoUnused
  /\ NormalizerUnused
  /\ RelayUnused

NextReader ==
  \/ ReaderGet
  \/ DownloadReturns

SpecReader == InitReader /\ [][NextReader]_vars

\* one invocation of the publisher, for every object stored before it
InitPrior ==
  /\ PublisherInitPrior
  /\ bucket = Missing
  /\ localFile = Missing
  /\ ReaderIdle
  /\ edgeMethod = "GET"
  /\ EdgeIdle
  /\ TwoUnused
  /\ NormalizerUnused
  /\ RelayUnused

SpecPrior == InitPrior /\ [][Next]_vars

\* calls of the device normalizer's functions, one per behaviour
InitNormalizer ==
  /\ PublisherInit
  /\ env = [secret |-> TRUE, baseUrl |-> TRUE]
  /\ bucket = Missing
  /\ localFile = Missing
  /\ ReaderIdle
  /\ edgeMethod = "GET"
  /\ EdgeIdle
  /\ TwoUnused
  /\ RelayUnused
  /\ call \in NormalizerCalls
  /\ result = NotReturned

NextNormalizer ==
  \/ CategorizeDevice
  \/ ExtractModelName
  \/ ResolveBrandName

SpecNormalizer == InitNormalizer /\ [][NextNormalizer]_vars

\* device records folded one after the other into a catalog that starts
\* empty
InitFold == Init /\ env = [secret |-> TRUE, baseUrl |-> TRUE]

NextFold == FoldOne

SpecFold == InitFold /\ [][NextFold]_vars

\* two invocations of the publisher that overlap in every way
NextTwo ==
  \/ \E p \in Invocations : TwoStart(p)
  \/ \E p \in Invocations : TwoManufacturersReply(p)
  \/ \E p \in Invocations : TwoThrottleElapsed(p)
  \/ \E p \in Invocations : TwoDevicesReply(p)
  \/ \E p \in Invocations : TwoFoldStep(p)
  \/ \E p \in Invocations : TwoUploadReply(p)
  \/ \E p \in Invocations : TwoRetryDelayElapsed(p)

InitTwo ==
  /\ Init
  /\ env = [secret |-> TRUE, baseUrl |-> TRUE]

SpecTwo == InitTwo /\ [][NextTwo]_vars

\* one invocation of the publisher on manufacturer lists around the cap
NextCap ==
  \/ Start
  \/ ManufacturersReplyLong
  \/ ThrottleElapsed
  \/ DevicesReplyAlike
  \/ FoldStep
  \/ UploadReply
  \/ RetryDelayElapsed

SpecCap == Init /\ [][NextCap]_vars

\* one invocation of the publisher in which every network call and every
\* delay returns, on the manufacturer lists of Spec and of SpecCap
NextLive ==
  \/ Start
  \/ ManufacturersReply
  \/ ManufacturersReplyLong
  \/ ThrottleElapsed
  \/ DevicesReplyFew
  \/ FoldStep
  \/ UploadReply
  \/ RetryDelayElapsed

SpecLive == Init /\ [][NextLive]_vars /\ WF_vars(NextLive)

\* one request to getDeviceCatalog, for every method and stored object
InitEdge ==
  /\ PublisherInit
  /\ env = [secret |-> TRUE, baseUrl |-> TRUE]
  /\ bucket \in BucketObjects
  /\ localFile = Missing
  /\ ReaderIdle
  /\ edgeMethod \in Methods
  /\ EdgeIdle
  /\ TwoUnused
  /\ NormalizerUnused
  /\ RelayUnused

NextEdge ==
  \/ EdgeRequest
  \/ EdgeDownloadReturns

SpecEdge == InitEdge /\ [][NextEdge]_vars

\* one request to the relay, for every environment, header and body
InitRelay ==
  /\ PublisherInit
  /\ env = [secret |-> TRUE, baseUrl |-> TRUE]
  /\ bucket = Missing
  /\ localFile = Missing
  /\ ReaderIdle
  /\ edgeMethod = "GET"
  /\ EdgeIdle
  /\ TwoUnused
  /\ NormalizerUnused
  /\ relayEnv \in [secret : InternalSecrets, key : MobileApiKeys]
  /\ relayRequest \in [secret : ProvidedSecrets, body : RelayBodies]
  /\ RelayIdle

NextRelay ==
  \/ RelayPost
  \/ UpstreamReturns

SpecRelay == InitRelay /\ [][NextRelay]_vars

(***************************************************************************)
(* Properties of the publisher.                                            *)
(***************************************************************************)
\* the handler has left the manufacturer loop and built the final catalog
CatalogFinal == attempts > 0

\* the manufacturer handled in step k
StepManufacturer(k) == manufacturersToProcess[k].name

\* step k received a device list (a non-success status or a body that is
\* not JSON makes the relay request, or reading it, throw)
FetchSucceeded(k) ==
  IsOk(steps[k].reply) /\ steps[k].reply.json.kind = "array"

\* the relay request of step k threw
FetchThrew(k) == ~IsOk(steps[k].reply)

\* a device object is present in cats: its model key exists under its
\* category and brand, and the variants it brings are in the model's list
Present(cats, device, manufacturerName) ==
  LET n == NormalizeTable[device, manufacturerName]
  IN  /\ n.category \in DOMAIN cats
      /\ OwnIndex(cats[n.category], n.brandName) # 0
      /\ LET models == cats[n.category][OwnIndex(cats[n.category], n.brandName)].models
         IN  /\ OwnIndex(models, n.modelName) # 0
             /\ LET variants == models[OwnIndex(models, n.modelName)].variants
                IN  /\ \A v \in 1..Len(n.storageVariants) :
                         arrayIncludes(variants, n.storageVariants[v])
                    /\ (Len(n.storageVariants) = 0 /\ n.variantName # <<>>)
                         => arrayIncludes(variants, n.variantName)

\* every device object of step k is present in the catalog
StepDevicesPresent(k) ==
  \A n \in 1..Len(steps[k].reply.json.items) :
    LET device == steps[k].reply.json.items[n]
    IN  device.kind = "object" => Present(categories, device, StepManufacturer(k))

\* a thrown relay request is followed by the next iteration, and an upload
\* that succeeds by the 200 response
FetchFailureIsNotFatal ==
  /\ \A k \in 1..Len(steps) : FetchThrew(k) => i >= k
  /\ (pc = "done" /\ attempts > 0 /\ lastResult = Null) => response.status = 200

\* C1 as stated: a manufacturer's device fetch that throws does not abort the
\* run, the devices of every manufacturer whose fetch succeeded are in the
\* final catalog, and the run reaches Success if the upload succeeds
C1_AsStated ==
  /\ FetchFailureIsNotFatal
  /\ CatalogFinal =>
       \A k \in 1..Len(steps) : FetchSucceeded(k) => StepDevicesPresent(k)

\* what the code keeps of C1: a manufacturer's device fetch that throws does
\* not abort the run, the devices of every manufacturer whose fetch succeeded
\* and whose device list was processed without an exception are in the final
\* catalog, and the run reaches Success if the upload succeeds
C1_FetchFailureNonFatal ==
  /\ FetchFailureIsNotFatal
  /\ CatalogFinal =>
       \A k \in 1..Len(steps) :
         (FetchSucceeded(k) /\ ~steps[k].threw) => StepDevicesPresent(k)

\* the fetch of the first manufacturer threw, the second manufacturer's
\* device was folded, and the run answered 200
C1_Witness ==
  /\ pc = "done"
  /\ response.status = 200
  /\ Len(steps) = 2
  /\ FetchThrew(1)
  /\ FetchSucceeded(2) /\ ~steps[2].threw
  /\ Len(steps[2].reply.json.items) = 2
  /\ categories # EmptyCategories

\* C2: when all 4 upload attempts return an error the invocation answers 500
\* and reports the error of the 4th attempt
C2_RetryExhaustion ==
  (pc = "done" /\ attempts = maxRetries + 1 /\ lastResult # Null) =>
    /\ response.status = 500
    /\ response.error.text = "Failed to upload catalog to Storage after 3 retries"
    /\ response.error.detail = lastResult

\* four failed attempts, the last with an error other than the one before
C2_Witness ==
  /\ pc = "done"
  /\ attempts = 4
  /\ lastResult = "storage error 2"
  /\ response.status = 500
  /\ response.error.detail = "storage error 2"

\* C3: at most 4 upload attempts; an attempt after the first is made only
\* after a failed attempt, none after a successful one, and a successful
\* attempt ends the run with the 200 response
C3_UploadAttempts ==
  /\ attempts <= 4
  /\ (attempts > 1 /\ pc = "upload") => lastResult # Null
  /\ pc = "retryDelay" => (lastResult # Null /\ attempts < 4)
  /\ (attempts > 0 /\ lastResult = Null /\ pc # "upload") =>
       (pc = "done" /\ response.status = 200 /\ uploadError = Null)

\* the 4th attempt succeeded after three failures
C3_Witness ==
  /\ pc = "done"
  /\ attempts = 4
  /\ retryCount = 3
  /\ lastResult = Null
  /\ response.status = 200

\* the variants lists of cats
VariantLists(cats) ==
  UNION {UNION {{cats[c][b].models[m].variants :
                   m \in 1..Len(cats[c][b].models)} :
                b \in 1..Len(cats[c])} :
         c \in DOMAIN cats}

NoDuplicates(arr) ==
  \A a, b \in 1..Len(arr) : arr[a] = arr[b] => a = b

\* C4: no variant list of the catalog holds the same string twice
C4_NoDuplicateVariants ==
  \A variants \in VariantLists(categories) : NoDuplicates(variants)

\* the same device object was folded twice for one manufacturer
C4_Witness ==
  /\ pc = "throttle"
  /\ Len(steps) = 1
  /\ ~steps[1].threw
  /\ Len(steps[1].reply.json.items) = 2
  /\ steps[1].reply.json.items[1] = steps[1].reply.json.items[2]
  /\ \E variants \in VariantLists(categories) : Len(variants) = 2

\* C5 as stated: every model key of the catalog has a non-empty variant list
C5_AsStated ==
  \A variants \in VariantLists(categories) : Len(variants) > 0

\* C6: folding a device object a second time leaves the catalog as the first
\* fold left it
C6_FoldIdempotent ==
  \A device \in DeviceElements, manufacturerName \in ManufacturerNames :
    LET once == FoldDevice(categories, device, manufacturerName).categories
    IN  FoldDevice(once, device, manufacturerName).categories = once

\* the first of two equal device objects has been folded into a catalog that
\* held entries before, and the second is about to be
C6_Witness ==
  /\ pc = "fold"
  /\ j = 1
  /\ i = 1
  /\ devices[1] = devices[2]
  /\ devices[1].kind = "object"
  /\ Len(devices[1].storage) = 1 /\ Len(devices[1].storage[1]) > 0
  /\ FoldDevice(categories, devices[2], manufacturersToProcess[i + 1].name).categories
       = categories

\* the manufacturer list step rejected the parsed response
ListRejected == manufacturers.kind # "undefined" /\ NotNonEmptyArray(manufacturers)

\* C7: a manufacturer list that is no array or an empty array ends the
\* invocation with 500; no device list request, no upload attempt
C7_EmptyListIsFatal ==
  (manufacturers.kind = "object" \/
   (manufacturers.kind = "array" /\ Len(manufacturers.items) = 0)) =>
    /\ pc = "done"
    /\ response.status = 500
    /\ requests = <<ManufacturersRequest>>
    /\ attempts = 0
    /\ stored = PriorObject

C7_Witness ==
  /\ manufacturers = ArrayJson(<<>>)
  /\ pc = "done"
  /\ response.status = 500

\* the manufacturer list step failed: the request or the parsing threw, or
\* the parsed response was rejected
ListStepFailed == manufacturers.kind = "undefined" \/ NotNonEmptyArray(manufacturers)

UploadExhausted == attempts = maxRetries + 1 /\ lastResult # Null

\* C8 as stated: with the configuration present the invocation answers 500
\* only if the manufacturer list step failed or the upload exhausted its
\* retries
C8_AsStated ==
  (env.secret /\ env.baseUrl /\ pc = "done" /\ response.status = 500) =>
    (ListStepFailed \/ UploadExhausted)

\* the catalog the steps so far yield when a step whose handling failed
\* counts as a step with no devices
RECURSIVE FoldList(_, _, _)
FoldList(cats, list, manufacturerName) ==
  IF list = <<>> THEN cats
  ELSE FoldList(FoldDevice(cats, Head(list), manufacturerName).categories,
                Tail(list), manufacturerName)

RECURSIVE CatalogOfSteps(_)
CatalogOfSteps(k) ==
  IF k = 0 THEN EmptyCategories
  ELSE IF FetchSucceeded(k) /\ ~steps[k].threw
    THEN FoldList(CatalogOfSteps(k - 1), steps[k].reply.json.items,
                  StepManufacturer(k))
  ELSE CatalogOfSteps(k - 1)

\* C9 as stated: the final catalog is the one obtained when every
\* manufacturer whose handling failed had returned no devices
C9_AsStated ==
  CatalogFinal => categories = CatalogOfSteps(Len(steps))

\* the Error of a non-success answer carries its status code, its status
\* text and its body, or 'Unknown error' for a body that cannot be read
Carries(error, reply) ==
  /\ error.text = "Internal API request failed"
  /\ error.status = reply.status
  /\ error.detail = reply.statusText
  /\ error.body = (IF reply.text = Unreadable THEN "Unknown error" ELSE reply.text)

\* C15: a non-success status from the relay makes the request fail with an
\* Error that carries the status code, the status text and the body; on the
\* manufacturer list request the invocation answers 500 with that Error and
\* sends nothing more, on a device list request the Error is caught, the
\* manufacturer is skipped and the invocation goes on
C15_TransportError ==
  /\ (listReply # NoReply /\ ~IsOk(listReply)) =>
       /\ pc = "done"
       /\ response.status = 500
       /\ Carries(response.error, listReply)
       /\ requests = <<ManufacturersRequest>>
       /\ attempts = 0
  /\ \A k \in 1..Len(steps) :
       ~IsOk(steps[k].reply) =>
         /\ steps[k].threw
         /\ Carries(steps[k].error, steps[k].reply)
         /\ i >= k
         /\ pc \in {"throttle", "devices", "fold", "upload", "retryDelay", "done"}
         /\ response.error # steps[k].error

\* the device list request of the first manufacturer was answered 403, the
\* second manufacturer's request has been sent since
C15_Witness ==
  /\ Len(steps) = 1
  /\ steps[1].reply.status = 403
  /\ steps[1].error.body = "{\"error\":\"Forbidden\"}"
  /\ pc = "devices"
  /\ Len(requests) = 3

\* the manufacturer list request was answered 502 with a body that cannot
\* be read, and the invocation answered 500
C15_WitnessList ==
  /\ listReply.status = 502
  /\ pc = "done"
  /\ response.status = 500
  /\ response.error.body = "Unknown error"

\* C17 as stated, for the publisher: the body of an error response has the
\* field error, may have the field message, and has no other field
C17_AsStated ==
  response.status \in {400, 403, 500} =>
    /\ "error" \in response.fields
    /\ response.fields \subseteq {"error", "message"}

\* the configuration is incomplete: the secret or the base URL is not set
ConfigurationMissing == ~env.secret \/ ~env.baseUrl

\* C18: with the relay secret or the base URL not configured the invocation
\* answers 500 at once: no relay request sent, no upload attempted, the
\* stored object untouched
C18_ConfigurationError ==
  (ConfigurationMissing /\ pc # "start") =>
    /\ pc = "done"
    /\ response.status = 500
    /\ requests = <<>>
    /\ attempts = 0
    /\ stored = PriorObject

\* the secret is set, the base URL is not, and the invocation answered 500
C18_Witness ==
  /\ env.secret
  /\ ~env.baseUrl
  /\ pc = "done"
  /\ response.status = 500
  /\ response.error.text = "INTERNAL_API_BASE_URL or SITE_URL environment variable is not set"

\* the names of the manufacturer objects of list between positions lo and hi
NamesBetween(list, lo, hi) ==
  {list[k].name : k \in {n \in lo..hi : n <= Len(list) /\ list[n].kind = "object"}}

\* the manufacturers that stand only past the cap
NamesPastCap ==
  NamesBetween(manufacturers.items, 51, Len(manufacturers.items))
    \ NamesBetween(manufacturers.items, 1, 50)

\* the brand keys of the catalog
BrandKeys(cats) ==
  UNION {{cats[c][b].name : b \in 1..Len(cats[c])} : c \in DOMAIN cats}

\* min(50, number of manufacturers returned)
RequestCap ==
  IF Len(manufacturers.items) < 50 THEN Len(manufacturers.items) ELSE 50

\* C19: the device list requests of an invocation are at most min(50, number
\* of manufacturers): request k is for the k-th manufacturer of the list,
\* an invocation that left the loop made exactly min(50, number) of them,
\* and a manufacturer past the 50th is never requested and is no brand
C19_RequestCap ==
  manufacturers.kind = "array" =>
    /\ Len(requests) - 1 <= RequestCap
    /\ \A k \in 2..Len(requests) :
         requests[k] = DevicesRequest(manufacturers.items[k - 1].name)
    /\ attempts > 0 => Len(requests) - 1 = RequestCap
    /\ \A name \in NamesPastCap :
         /\ \A k \in 1..Len(requests) : requests[k] # DevicesRequest(name)
         /\ name \notin BrandKeys(categories)

\* an invocation on a list of 51 manufacturers answered 200 after 50 device
\* list requests, each answered with a device filed under the manufacturer
C19_Witness ==
  /\ pc = "done"
  /\ response.status = 200
  /\ Len(manufacturers.items) = 51
  /\ Len(requests) = 51
  /\ NamesPastCap = {Samsung}
  /\ Apple \in BrandKeys(categories)

\* the relay requests that have been answered, and those in flight
Answered == (IF listReply # NoReply THEN 1 ELSE 0) + Len(steps)

InFlight == Len(requests) - Answered

\* C20: at most one relay request is in flight; a device list request is
\* sent only by the step that ends a throttle delay, one request per delay,
\* and a throttle delay starts only when no relay request is in flight
C20_Throttle ==
  /\ [](InFlight \in {0, 1})
  /\ [][(Len(requests) >= 1 /\ requests' # requests) =>
          /\ pc = "throttle"
          /\ pc' = "devices"
          /\ InFlight = 0
          /\ requests' = Append(requests, DevicesRequest(manufacturersToProcess[i + 1].name))]_vars
  /\ [][pc' = "throttle" => (pc # "throttle" /\ InFlight' = 0)]_vars
  /\ [][(pc = "throttle" /\ pc' # "throttle") =>
          (pc' = "devices" /\ Len(requests') = Len(requests) + 1)]_vars

\* the second device list request is in flight, the first has been answered
C20_Witness ==
  /\ pc = "devices"
  /\ i = 1
  /\ Len(requests) = 3
  /\ Len(steps) = 1
  /\ InFlight = 1

\* the categories the handler builds from a device list: the fold of its
\* elements up to the first that throws
RECURSIVE FoldUntilThrow(_, _, _)
FoldUntilThrow(cats, list, manufacturerName) ==
  IF list = <<>> THEN cats
  ELSE LET r == FoldDevice(cats, Head(list), manufacturerName)
       IN  IF r.threw THEN r.categories
           ELSE FoldUntilThrow(r.categories, Tail(list), manufacturerName)

\* the categories as a function of the relay responses alone: of the
\* manufacturer list and of the answers to the first k device list requests
RECURSIVE CatalogOfReplies(_)
CatalogOfReplies(k) ==
  IF k = 0 THEN EmptyCategories
  ELSE IF FetchSucceeded(k)
    THEN FoldUntilThrow(CatalogOfReplies(k - 1), steps[k].reply.json.items,
                        listReply.json.items[k].name)
  ELSE CatalogOfReplies(k - 1)

\* C21: the categories an invocation uploads are a function of the relay
\* responses it received, whatever object the store held before: from the
\* first upload attempt on the catalog is that function of the responses,
\* the store holds the prior object or that catalog, and nothing but a
\* successful upload changes the store
C21_UploadDependsOnResponses ==
  /\ attempts > 0 => categories = CatalogOfReplies(Len(steps))
  /\ \/ stored = prior
     \/ /\ attempts > 0
        /\ stored.categories = CatalogOfReplies(Len(steps))
  /\ (attempts = 0 \/ (pc = "done" /\ response.status = 500)) => stored = prior

\* an invocation that found an earlier catalog in the store has replaced it
\* with the catalog of its own responses
C21_Witness ==
  /\ prior = EarlierObject
  /\ pc = "done"
  /\ response.status = 200
  /\ categories # EmptyCategories
  /\ stored.categories = categories
  /\ Samsung \notin BrandKeys(stored.categories)

\* the object invocation p uploads: its complete catalog
ObjectOf(p) == [lastUpdated |-> 1, categories |-> inv[p].categories]

\* invocation p has left the manufacturer loop
Built(p) == inv[p].attempts > 0

\* C22: with two overlapping invocations the store holds at every moment
\* the prior object or the complete catalog of one invocation, and once
\* both have returned it holds the catalog of the invocation whose upload
\* succeeded last, or the prior object when no upload succeeded
C22_LastWriterWins ==
  /\ \/ stored = PriorObject /\ writes = <<>>
     \/ \E p \in Invocations : Built(p) /\ stored = ObjectOf(p)
  /\ writes # <<>> => stored = ObjectOf(writes[Len(writes)])
  /\ (\A p \in Invocations : inv[p].pc = "done") =>
       /\ writes = <<>> => stored = PriorObject
       /\ \A p \in Invocations :
            inv[p].response.status = 200 <=> (\E k \in 1..Len(writes) : writes[k] = p)

\* invocation 1 started first and uploaded last, after a failed attempt, a
\* catalog other than that of invocation 2: the store holds its catalog
C22_Witness ==
  /\ started = <<1, 2>>
  /\ writes = <<2, 1>>
  /\ inv[1].pc = "done" /\ inv[2].pc = "done"
  /\ inv[1].attempts = 2
  /\ inv[1].categories # inv[2].categories
  /\ inv[2].categories # EmptyCategories
  /\ stored = ObjectOf(1)

\* C23: when every network call and every delay returns, the invocation
\* returns a response, one only, with status 200 or 500; the manufacturer
\* loop makes at most 50 iterations and the upload loop at most 4
C23_Termination ==
  /\ <>(pc = "done")
  /\ [](pc = "done" <=> response # NoResponse)
  /\ [](pc = "done" => response.status \in {200, 500})
  /\ [][response # NoResponse => response' = response]_vars
  /\ [](i <= 50 /\ Len(steps) <= 50 /\ Len(requests) <= 51)
  /\ [](attempts <= 4 /\ retryCount <= 4)

\* an invocation returned after 50 iterations of the manufacturer loop and
\* 4 upload attempts
C23_Witness ==
  /\ pc = "done"
  /\ response # NoResponse
  /\ Len(steps) = 50
  /\ Len(manufacturers.items) = 51
  /\ attempts = 4

(***************************************************************************)
(* Properties of the API-route reader.                                     *)
(***************************************************************************)
\* the primary path succeeded: the download resolved with data that parses
PrimarySucceeded == download = "data" /\ JsonParse(bucket.text).ok

\* the primary path failed: the download gave an error or no data, threw,
\* or its text is not valid JSON
PrimaryFailed == download # "none" /\ ~PrimarySucceeded

\* the answer serves the catalog that text holds
Serves(text) ==
  /\ answer.status = 200
  /\ JsonParse(answer.body).ok
  /\ JsonParse(answer.body).value = JsonParse(text).value

PrimaryServed ==
  (rpc = "done" /\ PrimarySucceeded) =>
    /\ Serves(bucket.text)
    /\ answer.source = "supabase-storage"
    /\ answer.maxAge = 3600
    /\ ~localRead

\* C10 as stated: when the primary path fails and the local snapshot can be
\* read, the answer is 200 with the snapshot, marked local-fallback, cached
\* 300 s; when the primary path succeeds it is 200 with the stored catalog,
\* marked supabase-storage, cached 3600 s, and the local file is not read
C10_AsStated ==
  /\ PrimaryServed
  /\ (rpc = "done" /\ PrimaryFailed /\ localFile.exists) =>
       /\ Serves(localFile.text)
       /\ answer.source = "local-fallback"
       /\ answer.maxAge = 300

\* C10 amended: as stated, for a local snapshot that can be read and is
\* valid JSON
C10_ReaderFallback ==
  /\ PrimaryServed
  /\ (rpc = "done" /\ PrimaryFailed /\ localFile.exists /\ JsonParse(localFile.text).ok) =>
       /\ Serves(localFile.text)
       /\ answer.source = "local-fallback"
       /\ answer.maxAge = 300

\* the download resolved with a text that is not JSON and the answer is the
\* local snapshot, an array written with white space
C10_Witness ==
  /\ rpc = "done"
  /\ download = "data"
  /\ ~JsonParse(bucket.text).ok
  /\ localFile.exists
  /\ JsonParse(localFile.text).ok
  /\ Len(localFile.text) > Len(answer.body)
  /\ answer.source = "local-fallback"
  /\ answer.maxAge = 300

\* both sources failed: the primary path failed, and the local file is
\* missing or its text is not valid JSON
BothSourcesFailed ==
  PrimaryFailed /\ (~localFile.exists \/ ~JsonParse(localFile.text).ok)

\* C11: when the storage download and the local snapshot both fail, the
\* answer is 500 and its body is the object with error "Failed to load
\* device catalog" and the message that names both sources, Supabase
\* Storage and the local file, as failed
C11_BothSourcesFailed ==
  (rpc = "done" /\ BothSourcesFailed) =>
    /\ answer.status = 500
    /\ answer.fields = {"error", "message"}
    /\ answer.error = "Failed to load device catalog"
    /\ answer.message = "Both Supabase Storage and local file failed. Please ensure the catalogs bucket exists in Supabase Storage or the local file is available."
    /\ localRead

\* the stored object is no JSON, the local file exists and is no JSON
\* either, and the answer is the 500 of the fallback's catch
C11_Witness ==
  /\ rpc = "done"
  /\ download = "data"
  /\ ~JsonParse(bucket.text).ok
  /\ localFile.exists
  /\ ~JsonParse(localFile.text).ok
  /\ answer.status = 500

(***************************************************************************)
(* Properties of the private-bucket reader.                                *)
(***************************************************************************)
\* the download returned no error and its content parses as JSON
EdgeSucceeded == edgeDownload = "data" /\ JsonParse(bucket.text).ok

\* the messages of the errors a request can run into
UnderlyingMessages ==
  {StorageError.message, SyntaxError.message, TypeErrorOfNull.message,
   FetchError.message}

\* C12: a request other than OPTIONS is answered 200 with the parsed
\* catalog and max-age=3600 exactly when the download returned no error
\* and its content parses; every other answer is 500 with the body
\* { error } holding a fixed text and no message of the underlying error
C12_PrivateReader ==
  (edgePc = "done" /\ edgeMethod # "OPTIONS") =>
    /\ edgeAnswer.status \in {200, 500}
    /\ edgeAnswer.status = 200 <=> EdgeSucceeded
    /\ edgeAnswer.status = 200 =>
         /\ edgeAnswer.body = JsonStringify(JsonParse(bucket.text).value)
         /\ edgeAnswer.maxAge = 3600
    /\ edgeAnswer.status = 500 =>
         /\ edgeAnswer.fields = {"error"}
         /\ edgeAnswer.error \in {"Failed to fetch device catalog", "Internal server error"}
         /\ edgeAnswer.error \notin UnderlyingMessages
         /\ edgeAnswer.message \notin UnderlyingMessages

\* a POST whose download resolved with a text that is no JSON was answered 500
C12_Witness ==
  /\ edgePc = "done"
  /\ edgeMethod = "POST"
  /\ edgeDownload = "data"
  /\ ~JsonParse(bucket.text).ok
  /\ edgeAnswer.status = 500
  /\ edgeAnswer.error = "Internal server error"

(***************************************************************************)
(* Properties of the relay.                                                *)
(***************************************************************************)
\* the relay's secret is configured and the request's header equals it
Authenticated ==
  /\ Truthy(relayEnv.secret)
  /\ relayRequest.secret = relayEnv.secret

\* the body is JSON with a non-empty string endpoint
WellFormed ==
  /\ relayRequest.body.kind = "object"
  /\ relayRequest.body.endpoint.type = "string"
  /\ Len(relayRequest.body.endpoint.value) > 0

\* C13: the relay answers 500 when its secret is not configured, whatever
\* the request carries, and 403 when the secret is configured and the
\* X-Internal-Secret header is missing or differs; in both cases the body
\* has not been read
C13_SecretChecks ==
  relayPc # "idle" =>
    /\ ~Truthy(relayEnv.secret) =>
         /\ relayPc = "done"
         /\ relayAnswer.status = 500
         /\ ~bodyRead
    /\ (Truthy(relayEnv.secret) /\ relayRequest.secret # relayEnv.secret) =>
         /\ relayPc = "done"
         /\ relayAnswer.status = 403
         /\ ~bodyRead

\* a request with a well-formed body and a header that differs from the
\* configured secret was answered 403
C13_Witness ==
  /\ relayPc = "done"
  /\ Truthy(relayEnv.secret)
  /\ Truthy(relayRequest.secret)
  /\ relayRequest.secret # relayEnv.secret
  /\ WellFormed
  /\ Truthy(relayEnv.key)
  /\ relayAnswer.status = 403

\* C32: the relay has sent a request upstream only if its secret is
\* configured, the X-Internal-Secret header equals it, the body has a
\* non-empty string endpoint and the provider key is configured; the request
\* is the one GET of the target URL with that key, and in every other case
\* nothing is sent and nothing is fetched
C32_UpstreamGate ==
  /\ upstreamRequests # <<>> =>
       /\ Authenticated
       /\ WellFormed
       /\ Truthy(relayEnv.key)
       /\ bodyRead
       /\ upstreamRequests =
            <<UpstreamRequest(targetUrl(relayRequest.body.endpoint.value),
                              relayEnv.key)>>
  /\ ~(Authenticated /\ WellFormed /\ Truthy(relayEnv.key)) =>
       /\ upstreamRequests = <<>>
       /\ upstream = NotFetched
       /\ relayPc # "upstream"

\* an authenticated request with a path endpoint was sent upstream with the
\* configured key and the fetch has not returned yet
C32_Witness ==
  /\ relayPc = "upstream"
  /\ Authenticated
  /\ relayRequest.body.endpoint.value = <<"d">>
  /\ relayEnv.key = Some(<<"k">>)
  /\ Len(upstreamRequests) = 1
  /\ upstreamRequests[1].url = baseUrl \o <<"/", "d">>
  /\ upstreamRequests[1].token = Some(<<"k">>)

\* C14 as stated: the answer to an authenticated, well-formed request has
\* the status and the body of the upstream response
C14_AsStated ==
  (relayPc = "done" /\ Authenticated /\ WellFormed /\ upstream.kind = "response") =>
    /\ relayAnswer.status = upstream.status
    /\ relayAnswer.text = upstream.text
    /\ relayAnswer.fields = {}

\* C16: an authenticated request whose body is no JSON, or whose endpoint
\* is missing, no string or empty, is answered 400 and no upstream request
\* is made
C16_MalformedBody ==
  (relayPc # "idle" /\ Authenticated /\ ~WellFormed) =>
    /\ relayPc = "done"
    /\ relayAnswer.status = 400
    /\ upstreamRequests = <<>>

\* an authenticated request with the endpoint "" was answered 400 by a relay
\* whose provider key is configured
C16_Witness ==
  /\ relayPc = "done"
  /\ Authenticated
  /\ relayRequest.body.kind = "object"
  /\ relayRequest.body.endpoint = StringEndpoint(<<>>)
  /\ Truthy(relayEnv.key)
  /\ relayAnswer.status = 400
  /\ bodyRead

(***************************************************************************)
(* Properties of the device normalizer's functions.                        *)
(***************************************************************************)
\* the first candidate that is present and not empty, or the fallback
RECURSIVE FirstNonEmpty(_, _)
FirstNonEmpty(candidates, fallback) ==
  IF candidates = <<>> THEN fallback
  ELSE IF Head(candidates) # Undefined /\ Head(candidates)[1] # <<>>
    THEN Head(candidates)[1]
  ELSE FirstNonEmpty(Tail(candidates), fallback)

\* C24: the brand of a device is the first non-empty value among its nested
\* brand name, its manufacturer-name field and its flat brand-name field,
\* and the name of the manufacturer being iterated if none is; the device is
\* filed under that brand
C24_BrandPrecedence ==
  (call.fn = "brandName" /\ result.done) =>
    LET expected ==
          FirstNonEmpty(<<call.device.brand, call.device.manufacturer_name,
                          call.device.brand_name>>, call.manufacturerName)
        filed ==
          FoldNormalized(EmptyCategories,
                         Normalize(call.device, call.manufacturerName)).categories
    IN  /\ result.value = expected
        /\ Len(filed["phone"]) = 1
        /\ filed["phone"][1].name = expected

\* the brand of a device whose nested brand name is empty and whose two
\* other fields are set was resolved to the manufacturer-name field
C24_Witness ==
  /\ call.fn = "brandName"
  /\ result.done
  /\ call.device.brand = Some(<<>>)
  /\ call.device.manufacturer_name = Some(<<"M">>)
  /\ call.device.brand_name = Some(<<"F">>)
  /\ result.value = <<"M">>

TabletWords == {<<"t", "a", "b", "l", "e", "t">>, <<"i", "p", "a", "d">>, <<"t", "a", "b">>}

WatchWords == {<<"w", "a", "t", "c", "h">>, <<"b", "a", "n", "d">>}

\* name contains one of the words, whatever the case of its letters
ContainsWord(name, words) ==
  \E w \in words :
    \E p \in 1..Len(name) :
      /\ p + Len(w) - 1 <= Len(name)
      /\ \A k \in 1..Len(w) : LowerChar(name[p + k - 1]) = w[k]

\* C25: categorizeDevice returns tablet for a name that contains tablet,
\* ipad or tab, otherwise smartwatch for a name that contains watch or
\* band, otherwise phone, whatever the case of the letters
C25_Categorize ==
  (call.fn = "categorizeDevice" /\ result.done) =>
    LET tablet == ContainsWord(call.deviceName, TabletWords)
        watch == ContainsWord(call.deviceName, WatchWords)
    IN  /\ result.value \in {"tablet", "smartwatch", "phone"}
        /\ tablet => result.value = "tablet"
        /\ (~tablet /\ watch) => result.value = "smartwatch"
        /\ (~tablet /\ ~watch) => result.value = "phone"

\* a name that contains WATCH before tab was categorized as a tablet
C25_Witness ==
  /\ call.fn = "categorizeDevice"
  /\ result.done
  /\ call.deviceName = <<"W", "A", "T", "C", "H", " ", "t", "a", "b">>
  /\ result.value = "tablet"

\* s without the vocabulary words that stand at its end, and trimmed
RECURSIVE TrailingTokensRemoved(_)
TrailingTokensRemoved(s) ==
  LET e == trim(s)
      ending ==
        {t \in StorageTokens \cup ColorTokens :
           /\ Len(t) <= Len(e)
           /\ toLowerCase(SubSeq(e, Len(e) - Len(t) + 1, Len(e))) = toLowerCase(t)}
  IN  IF ending = {} THEN e
      ELSE LET t == CHOOSE t \in ending : \A u \in ending : Len(t) >= Len(u)
           IN  TrailingTokensRemoved(SubSeq(e, 1, Len(e) - Len(t)))

\* the model name as stated: the brand prefix removed, then the storage and
\* colour words at the end, or the device name if nothing is left
ModelNameAsStated(deviceName, brandName) ==
  LET m0 == IF /\ Len(brandName) <= Len(deviceName)
                 /\ toLowerCase(SubSeq(deviceName, 1, Len(brandName)))
                      = toLowerCase(brandName)
              THEN SubSeq(deviceName, Len(brandName) + 1, Len(deviceName))
              ELSE deviceName
      m == TrailingTokensRemoved(m0)
  IN  IF m # <<>> THEN m ELSE deviceName

\* C26 as stated: extractModelName removes the brand prefix and the storage
\* and colour words that stand at the end of the name, and keeps a name
\* that contains such a word before other text
C26_AsStated ==
  (call.fn = "extractModelName" /\ result.done) =>
    result.value = ModelNameAsStated(call.deviceName, call.brandName)

(***************************************************************************)
(* Properties of the fold.                                                 *)
(***************************************************************************)
\* the variant list of the model that n names in cats, empty if cats has no
\* such model
ModelVariants(cats, n) ==
  IF n.category \notin DOMAIN cats \/ OwnIndex(cats[n.category], n.brandName) = 0
    THEN <<>>
  ELSE LET models == cats[n.category][OwnIndex(cats[n.category], n.brandName)].models
       IN  IF OwnIndex(models, n.modelName) = 0 THEN <<>>
           ELSE models[OwnIndex(models, n.modelName)].variants

\* the tokens that are not in list, each once, in the order of their first
\* occurrence
NewTokens(list, tokens) ==
  LET keep == {k \in 1..Len(tokens) :
                 /\ ~arrayIncludes(list, tokens[k])
                 /\ \A q \in 1..(k - 1) : tokens[q] # tokens[k]}
  IN  [m \in 1..Cardinality(keep) |->
         tokens[CHOOSE k \in keep : Cardinality({q \in keep : q <= k}) = m]]

\* the variant list of n's model after a device that normalizes to n was
\* folded into a catalog where the list was before
VariantsAsStated(before, n) ==
  IF Len(n.storageVariants) > 0
    THEN before \o NewTokens(before, n.storageVariants)
  ELSE IF n.variantName # <<>> /\ ~arrayIncludes(before, n.variantName)
    THEN Append(before, n.variantName)
  ELSE before

\* C27 as stated: folding a device appends to its model's variant list the
\* storage tokens that are not in it, in order, or, when the storage field
\* yields no token, the synthetic variant if it is not empty and not in it
C27_AsStated ==
  \A device \in {d \in DeviceElements : d.kind = "object"},
     manufacturerName \in ManufacturerNames :
    LET n == NormalizeTable[device, manufacturerName]
        after == FoldDevice(categories, device, manufacturerName).categories
    IN  ModelVariants(after, n) = VariantsAsStated(ModelVariants(categories, n), n)

C30_SuccessIffUploaded ==
  /\ pc = "done" =>
       (response.status = 200 <=> (attempts > 0 /\ lastResult = Null))
  /\ stored # prior =>
       /\ pc = "done"
       /\ response.status = 200
       /\ stored = [lastUpdated |-> 1, categories |-> categories]
  /\ (pc = "done" /\ response.status # 200) => stored = prior
  /\ (pc = "done" /\ response.status = 200) => stored # prior

\* the third upload attempt succeeded after two that failed, over an object
\* that held a catalog before: the answer is 200 and the object is replaced
C30_Witness ==
  /\ pc = "done"
  /\ response.status = 200
  /\ attempts = 3
  /\ retryCount = 2
  /\ prior = EarlierObject
  /\ stored # prior

\* list a is the beginning of list b
IsPrefix(a, b) == Len(a) <= Len(b) /\ SubSeq(b, 1, Len(a)) = a

\* every category, brand and model of before is in after, and each of its
\* variant lists is the beginning of the model's list in after
Grows(before, after) ==
  \A c \in DOMAIN before :
    /\ c \in DOMAIN after
    /\ \A b \in 1..Len(before[c]) :
         LET brand == before[c][b]
             nb == OwnIndex(after[c], brand.name)
         IN  /\ nb # 0
             /\ \A m \in 1..Len(brand.models) :
                  LET model == brand.models[m]
                      nm == OwnIndex(after[c][nb].models, model.name)
                  IN  /\ nm # 0
                      /\ IsPrefix(model.variants, after[c][nb].models[nm].variants)

\* C29: a fold step removes no category, brand or model, and leaves every
\* variant list as the beginning of what it becomes
C29_FoldOnlyGrows == [][Grows(categories, categories')]_vars

\* the model S got the variant 1 from one device and then 2 from another
C29_Witness ==
  \E variants \in VariantLists(categories) : variants = <<(<<"1">>), (<<"2">>)>>

(***************************************************************************)
(* Properties of an invocation that finds no device.                       *)
(***************************************************************************)
\* the device step of the k-th manufacturer handled failed, or its device
\* list was no array or an empty one
DeviceStepFruitless(k) ==
  \/ steps[k].threw
  \/ steps[k].reply.json.kind # "array"
  \/ Len(steps[k].reply.json.items) = 0

\* C31 as stated: after a non-empty manufacturer list, if every device step
\* failed or returned no devices and the upload did not fail on all its
\* attempts, the invocation answers 200 and the stored object is a catalog
\* whose three categories hold no brand
C31_AsStated ==
  (/\ pc = "done"
   /\ manufacturers.kind = "array"
   /\ Len(manufacturers.items) > 0
   /\ ~UploadExhausted
   /\ \A k \in 1..Len(steps) : DeviceStepFruitless(k)) =>
    /\ response.status = 200
    /\ stored = [lastUpdated |-> 1, categories |-> EmptyCategories]

====
